---- MODULE Spec2Model ----
(***************************************************************************)
(* Model of the centipod task scheduler (core/src/runner.ts, class Runner, *)
(* last revision in the file: lines 553-870).                              *)
(*                                                                         *)
(* One behaviour is one runCommand(cmd, options, ..., watch) subscription. *)
(* The rxjs pipeline is modelled by what it does: every action is one      *)
(* callback of the event loop (a promise settling, a debounced source      *)
(* change), and the synchronous cascade it triggers (mergeAll pulling the  *)
(* next buffered task, concatAll subscribing the next step, the            *)
(* invalidations of a finished step) is computed by operators on a record  *)
(* holding the scheduler's state.                                          *)
(***************************************************************************)
EXTENDS Integers, Sequences, FiniteSets, TLC

\* Number of workspaces of the project.
NumWs == 3
\* Runner._concurrency (default 4; the tests construct new Runner(project, 2)).
Concurrency == 2

Ws == 1..NumWs

\* Number of source files the globs of the target can match.
NumFiles == 2

VARIABLES
  mode,        \* options.mode
  watch,       \* runCommand's watch argument
  targets,     \* OrderedTargets: the steps, each a sequence of workspaces
  affected,    \* IResolvedTarget.affected, per workspace
  hasCommand,  \* IResolvedTarget.hasCommand, per workspace
  resolution,  \* state of the promise targets.resolve(cmd, options)
  watching,    \* watch mode: sourcesChange$ is subscribed
  events,      \* what the subscriber of runCommand has received through next()
               \* since the scheduled tasks were last aborted, SOURCES_CHANGED
               \* left out
  batch,       \* every event the subscriber received from the last callback
  firstEvent,  \* history: type of the first event the subscriber received
  nResolved,   \* history: number of TARGETS_RESOLVED events received
  stream,      \* "open", "completed" or "errored": the subscriber's state
  streamError, \* payload given to obs.error
  step,        \* index of the _runStep observable subscribed by concatAll (0: none)
  queue,       \* mergeAll's buffer: tasks of the step not yet subscribed
  active,      \* subscribed tasks whose Workspace.run has not emitted
  emitted,     \* subscribed tasks whose result was emitted, complete() pending
  executions,  \* the step's Set<CaughtProcessExecution>, in insertion order
  stepErr,     \* err of step$'s error handler, re-raised after invalidations
  invQueue,    \* invalidations$ not yet subscribed by concatAll
  invActive,   \* workspaces whose invalidate() promise is pending and observed
  invOrphans,  \* workspaces whose invalidate() promise is pending, unsubscribed
  invRejected, \* history: workspaces whose invalidate() promise rejected
               \* since the last abort, in the order of the rejections
  runInvoked,  \* history: workspaces for which Workspace.run was called since
               \* the last abort
  wrp,         \* _workspaceWithRunningProcesses, in insertion order
  currentStep  \* watch mode: index of currentStep (0: undefined)

\* The cache of one (workspace, target) and one task running on it.
VARIABLES
  files,         \* per source path: 0 when no file matches, else its content hash
  checksumsFile, \* .caches/<cmd>/checksums.json
  outputFile,    \* .caches/<cmd>/output.json
  memoSet,       \* Cache._checksums is defined
  calls,         \* history: the last calls of Cache methods since the sources
                 \* last changed (two at most)
  pc,            \* position of the task: "idle", "running", "failed", "ended"
  task           \* the task: its arguments, what it did and what was reported

options == <<mode, watch, targets, affected, hasCommand>>
sched == <<resolution, watching, events, batch, firstEvent, nResolved, stream, streamError, step,
           queue, active, emitted, executions, stepErr, invQueue, invActive,
           invOrphans, invRejected, runInvoked, wrp, currentStep>>
cache == <<files, checksumsFile, outputFile, memoSet, calls, pc, task>>

\* The project (project.ts, workspace.ts: the dependency graph and the
\* calls made on it).
VARIABLES
  deps,    \* per workspace, the workspaces its package.json depends on
  loaded,  \* state of Project.loadProject: "none", "loaded" or "failed"
  probe,   \* the last call of Workspace._testAffected on its own
  outcome  \* the last call of isAffected or getTopologicallySortedWorkspaces

\* The processes of one workspace (workspace.ts).
VARIABLES
  daemon,  \* the supervision of a daemon by _handleDaemon
  kills    \* a call of kill(cmd) and the processes registered for cmd

\* What runs beside the scheduler: the file watcher (watcher.ts), the
\* debounce of its events (runner.ts), the registry of spawned processes
\* (workspace.ts) and cache operations running at the same time (cache.ts).
VARIABLES
  fsw,        \* the Watcher: its subjects, file-system watchers and timers
  debounced,  \* sourcesChange$.pipe(debounceTime(debounce)) and its subscriber
  registry,   \* Workspace._processes for one target, and the processes
  racers      \* a cache.read() and a cache.write() or invalidate() in flight

project == <<deps, loaded, probe, outcome>>
process == <<daemon, kills>>
side == <<fsw, debounced, registry, racers>>
world == <<project, process, side>>
vars == <<options, sched, cache, world>>

-----------------------------------------------------------------------------
(* Events (process.ts, RunCommandEventEnum and the event interfaces).      *)
(* step is an annotation: the _runStep observable that emitted the event   *)
(* (0 for the events runCommand emits itself; for SOURCES_CHANGED the      *)
(* current step as the handler of the change found it); info tells for a   *)
(* NODE_PROCESSED whether result.fromCache is set.                         *)

Evt(t, w, i, k) == [type |-> t, ws |-> w, info |-> i, step |-> k]
NoEvent == Evt("NONE", 0, "-", 0)

Range(q) == {q[i] : i \in 1..Len(q)}

\* targets.find((step) => step.some((t) => t.workspace.name === name))
StepIndexOf(w) ==
  IF \E k \in 1..Len(targets) : w \in Range(targets[k])
  THEN CHOOSE k \in 1..Len(targets) :
         /\ w \in Range(targets[k])
         /\ \A j \in 1..(k - 1) : w \notin Range(targets[j])
  ELSE 0

-----------------------------------------------------------------------------
(* The plans TargetsResolver.resolve can return.  The resolver's source is *)
(* not part of the repository files at hand; the plan shapes follow the    *)
(* specification: one step in parallel mode, a partition of the selected   *)
(* workspaces into non-empty steps in topological mode, or an empty plan.  *)

StepAssignments ==
  {f \in [Ws -> Ws] :
     /\ f[1] = 1
     /\ \A w \in Ws \ {1} : f[w] \in {f[w - 1], f[w - 1] + 1}}

RECURSIVE SeqOfSet(_)
SeqOfSet(S) ==
  IF S = {} THEN <<>>
  ELSE LET m == CHOOSE x \in S : \A y \in S : x <= y
       IN <<m>> \o SeqOfSet(S \ {m})

PlanOf(f) == [k \in 1..f[NumWs] |-> SeqOfSet({w \in Ws : f[w] = k})]

Plans(m) ==
  IF m = "parallel"
  THEN {<<>>, <<SeqOfSet(Ws)>>}
  ELSE {<<>>} \cup {PlanOf(f) : f \in StepAssignments}

-----------------------------------------------------------------------------
(* The scheduler's state as one record, so that the synchronous cascades   *)
(* of the rxjs operators can be written as functions from state to state.  *)
(* St is the state a callback starts from: it has delivered nothing yet.   *)

St ==
  [events |-> events, batch |-> <<>>, firstEvent |-> firstEvent, nResolved |-> nResolved,
   stream |-> stream, streamError |-> streamError,
   step |-> step, queue |-> queue, active |-> active,
   emitted |-> emitted, executions |-> executions, stepErr |-> stepErr,
   invQueue |-> invQueue, invActive |-> invActive, invOrphans |-> invOrphans,
   invRejected |-> invRejected, runInvoked |-> runInvoked, wrp |-> wrp,
   currentStep |-> currentStep]

Commit(s) ==
  /\ events' = s.events
  /\ batch' = s.batch
  /\ firstEvent' = s.firstEvent
  /\ nResolved' = s.nResolved
  /\ stream' = s.stream
  /\ streamError' = s.streamError
  /\ step' = s.step
  /\ queue' = s.queue
  /\ active' = s.active
  /\ emitted' = s.emitted
  /\ executions' = s.executions
  /\ stepErr' = s.stepErr
  /\ invQueue' = s.invQueue
  /\ invActive' = s.invActive
  /\ invOrphans' = s.invOrphans
  /\ invRejected' = s.invRejected
  /\ runInvoked' = s.runInvoked
  /\ wrp' = s.wrp
  /\ currentStep' = s.currentStep
  /\ UNCHANGED <<cache, world>>

\* Set.add / Set.delete on a Set kept in insertion order.
SetAdd(q, x) == IF x \in Range(q) THEN q ELSE Append(q, x)
SetDelete(q, x) == SelectSeq(q, LAMBDA y : y # x)

-----------------------------------------------------------------------------
(* The subscriber of runCommand: obs.next, obs.error, obs.complete.  A     *)
(* stopped subscriber ignores every later notification.                    *)

ObsNext(s, e) ==
  IF s.stream = "open"
  THEN [s EXCEPT !.events = IF e.type = "SOURCES_CHANGED" THEN @
                              ELSE Append(@, e),
                 !.batch = Append(@, e),
                 !.firstEvent = IF @ = "NONE" THEN e.type ELSE @,
                 !.nResolved = IF e.type = "TARGETS_RESOLVED" THEN @ + 1 ELSE @]
  ELSE s

ObsError(s, e) ==
  IF s.stream = "open"
  THEN [s EXCEPT !.stream = "errored", !.streamError = e]
  ELSE s

ObsComplete(s) ==
  IF s.stream = "open" THEN [s EXCEPT !.stream = "completed"] ELSE s

(* The next handler of the subscription of the scheduled tasks: obs.next   *)
(* in a plain run (line 636); in watch mode the handler of                 *)
(* executeCurrentTasks (lines 657-671), which tracks currentStep and the   *)
(* workspaces with running processes before forwarding the event.          *)
TasksNext(s, e) ==
  IF ~watch THEN ObsNext(s, e)
  ELSE LET t == CASE e.type = "NODE_STARTED" ->
                       [s EXCEPT !.currentStep = StepIndexOf(e.ws),
                                 !.wrp = SetAdd(@, e.ws)]
                  [] e.type \in {"NODE_PROCESSED", "NODE_ERRORED"} ->
                       [s EXCEPT !.wrp = SetDelete(@, e.ws)]
                  [] OTHER -> s
       IN ObsNext(t, e)

\* The error handler of that subscription (lines 637 and 672-673).
TasksError(s, e) == ObsError([s EXCEPT !.step = 0], e)

\* Variant of the complete handler that logs in a plain run too.
TasksCompleteLogsOnly(s) == [s EXCEPT !.step = 0]

\* Its complete handler: obs.complete() in a plain run (line 638), a log
\* line in watch mode (lines 674-676).
TasksComplete(s) ==
  IF watch THEN [s EXCEPT !.step = 0] ELSE ObsComplete([s EXCEPT !.step = 0])

-----------------------------------------------------------------------------
(* Runner._invalidateSubsequentWorkspaceCache: the workspaces of every     *)
(* step after the first step that includes current.                        *)
SubsequentWorkspaces(current) ==
  UNION {Range(targets[j]) :
           j \in {i \in 1..Len(targets) :
                    \E k \in 1..(i - 1) : current \in Range(targets[k])}}

isFailedExecution(x) == x.status = "ko"

\* Variant of resolveInvalidations$ in which only an error, not a rebuild,
\* invalidates the subsequent steps.
ResolveInvalidationsErrorsOnly(x) ==
  LET failed == SelectSeq(x, LAMBDA y : y.status = "ko")
      errored == [i \in 1..Len(failed) |-> {failed[i].target}]
  IN IF mode = "topological" /\ failed # <<>>
     THEN Append(errored, SubsequentWorkspaces(x[Len(x)].target))
     ELSE errored

\* Variant of resolveInvalidations$ that invalidates the cache of every
\* executed workspace, failed or not.
ResolveInvalidationsAll(x) ==
  LET cachedInvalidated ==
        \E i \in 1..Len(x) : x[i].status = "ko" \/ ~x[i].fromCache
      all == [i \in 1..Len(x) |-> {x[i].target}]
  IN IF mode = "topological" /\ cachedInvalidated
     THEN Append(all, SubsequentWorkspaces(x[Len(x)].target))
     ELSE all

(* resolveInvalidations$ (lines 728-750): the observables handed to        *)
(* concatAll.  Each is the set of workspaces whose invalidate() it calls   *)
(* when subscribed: one workspace for _invalidateCache, every subsequent   *)
(* workspace at once (mergeAll without a cap) for the subsequent steps.    *)
ResolveInvalidations(x) ==
  LET failed == SelectSeq(x, isFailedExecution)
      hasAtLeastOneError == failed # <<>>
      cachedInvalidated ==
        \E i \in 1..Len(x) : x[i].status = "ok" /\ ~x[i].fromCache
      errored == [i \in 1..Len(failed) |-> {failed[i].target}]
  IN IF mode = "topological" /\ (hasAtLeastOneError \/ cachedInvalidated)
        /\ x # <<>>
     THEN Append(errored, SubsequentWorkspaces(x[Len(x)].target))
     ELSE errored

RECURSIVE FillSlots(_)
RECURSIVE NextInvalidation(_)
RECURSIVE SubscribeStep(_, _)

\* Variant of _runForWorkspace without started$: the command runs but
\* NODE_STARTED is not emitted.
SubscribeTaskNoStart(s, w) ==
  IF affected[w] /\ hasCommand[w]
  THEN [s EXCEPT !.active = @ \cup {w}, !.runInvoked = @ \cup {w}]
  ELSE TasksNext(s, Evt("NODE_SKIPPED", w, "-", s.step))

\* Variant of _runForWorkspace that tests target.affected only.
SubscribeTaskAffectedOnly(s, w) ==
  IF affected[w]
  THEN [TasksNext(s, Evt("NODE_STARTED", w, "-", s.step))
          EXCEPT !.active = @ \cup {w}, !.runInvoked = @ \cup {w}]
  ELSE TasksNext(s, Evt("NODE_SKIPPED", w, "-", s.step))

\* Runner._runForWorkspace (lines 784-806), subscribed by mergeAll.
SubscribeTask(s, w) ==
  IF affected[w] /\ hasCommand[w]
  THEN [TasksNext(s, Evt("NODE_STARTED", w, "-", s.step))
          EXCEPT !.active = @ \cup {w}, !.runInvoked = @ \cup {w}]
  ELSE TasksNext(s, Evt("NODE_SKIPPED", w, "-", s.step))

(* concatAll over invalidations$ (line 749) and the complete handlers of   *)
(* its subscription (lines 765 and 777): an observable with nothing to     *)
(* invalidate completes at once; when all have completed the step errors   *)
(* with the kept error, or completes and concatAll (line 621) subscribes   *)
(* the next step.                                                          *)
NextInvalidation(s) ==
  IF s.invQueue # <<>>
  THEN IF Head(s.invQueue) = {}
       THEN NextInvalidation([s EXCEPT !.invQueue = Tail(@)])
       ELSE [s EXCEPT !.invQueue = Tail(@), !.invActive = Head(s.invQueue)]
  ELSE IF s.stepErr # NoEvent THEN TasksError(s, s.stepErr)
  ELSE IF s.step < Len(targets) THEN SubscribeStep(s, s.step + 1)
  ELSE TasksComplete(s)

\* step$'s complete handler (lines 768-779).
StepTasksComplete(s) ==
  NextInvalidation([s EXCEPT !.invQueue = ResolveInvalidations(s.executions)])

\* Variant of step$'s error handler that re-raises the error without
\* running the invalidations.
StepTasksErrorNoInvalidation(s, err) ==
  TasksError(TasksNext([s EXCEPT !.queue = <<>>, !.active = {},
                                 !.emitted = {}], err), err)

(* step$'s error handler (lines 753-767): mergeAll has unsubscribed every  *)
(* other task of the step; the error event is forwarded, then the          *)
(* invalidations run and the step errors with err.                         *)
StepTasksError(s, err) ==
  LET t == TasksNext([s EXCEPT !.queue = <<>>, !.active = {}, !.emitted = {}],
                     err)
  IN NextInvalidation([t EXCEPT !.stepErr = err,
                                !.invQueue = ResolveInvalidations(s.executions)])

\* Variant of mergeAll(this._concurrency) that lets one task more than
\* _concurrency be subscribed.
FillSlotsOverCap(s) ==
  IF s.queue # <<>> /\ Cardinality(s.active \cup s.emitted) <= Concurrency
  THEN FillSlots(SubscribeTask([s EXCEPT !.queue = Tail(@)], Head(s.queue)))
  ELSE IF s.queue = <<>> /\ s.active \cup s.emitted = {}
  THEN StepTasksComplete(s)
  ELSE s

(* mergeAll(this._concurrency) (lines 724-726): subscribe buffered tasks   *)
(* while fewer than _concurrency are subscribed; complete when none is     *)
(* subscribed and none is buffered.                                        *)
FillSlots(s) ==
  IF s.queue # <<>> /\ Cardinality(s.active \cup s.emitted) < Concurrency
  THEN FillSlots(SubscribeTask([s EXCEPT !.queue = Tail(@)], Head(s.queue)))
  ELSE IF s.queue = <<>> /\ s.active \cup s.emitted = {}
  THEN StepTasksComplete(s)
  ELSE s

\* Variant of _scheduleTasks that merges the steps instead of concatenating
\* them: the tasks of the next step are scheduled with those of step k.
SubscribeStepMerged(s, k) ==
  FillSlots([s EXCEPT !.step = k,
                      !.queue = IF k < Len(targets)
                                THEN targets[k] \o targets[k + 1]
                                ELSE targets[k],
                      !.active = {}, !.emitted = {}, !.executions = <<>>,
                      !.stepErr = NoEvent, !.invQueue = <<>>,
                      !.invActive = {}])

\* Runner._runStep (lines 711-782) for step k, subscribed by concatAll.
SubscribeStep(s, k) ==
  FillSlots([s EXCEPT !.step = k, !.queue = targets[k], !.active = {},
                      !.emitted = {}, !.executions = <<>>,
                      !.stepErr = NoEvent, !.invQueue = <<>>,
                      !.invActive = {}])

-----------------------------------------------------------------------------
(* The cache of one (workspace, target): cache.ts, classes Cache (lines    *)
(* 10-114) and Checksum (lines 123-157).  A fingerprint is a map from keys *)
(* to values; a file of the cache folder is absent, unparseable            *)
(* ("garbage") or holds a JSON value.                                      *)

Paths == 1..NumFiles
\* Content hashes of a source file, values of config.cmd, command results.
Hashes == {1, 2}
Cmds == {1, 2}
Results == {1, 2}

CmdKey == <<"cmd">>
GlobsKey == <<"globs">>
PathKey(p) == <<"path", p>>
CacheKey == <<"_cache">>

EmptyMap == [k \in {} |-> 0]

\* The states of the source files.
FileStates == [Paths -> Hashes \cup {0}]

\* The map Checksum.calculate builds (lines 147-155) for command c and
\* source files f: cmd, globs, and one key per matched path.
ChecksumsOf(c, f) ==
  [k \in {CmdKey, GlobsKey} \cup {PathKey(p) : p \in {q \in Paths : f[q] # 0}}
     |-> IF k = CmdKey THEN c ELSE IF k = GlobsKey THEN 1 ELSE f[k[2]]]

(* JSON.stringify of a Checksum instance (line 64): its one own property   *)
(* is _cache.                                                              *)
ObjectDump == [k \in {CacheKey} |-> 1]

ChecksumsContent(kind, m) == [kind |-> kind, val |-> m]
OutputContent(kind, r) == [kind |-> kind, val |-> r]

\* cache.read's miss.
Null == 0

\* What a call returned or threw.
Returned(v) == [thrown |-> FALSE, val |-> v]
Thrown == [thrown |-> TRUE, val |-> Null]

\* Checksum.calculate (lines 141-156); the command of the target is 1.
ChecksumCalculate(f) ==
  IF \A p \in Paths : f[p] = 0
  THEN [thrown |-> TRUE, val |-> EmptyMap]
  ELSE [thrown |-> FALSE, val |-> ChecksumsOf(1, f)]

\* Checksum.read (lines 132-139).
ChecksumRead(cf) == IF cf.kind = "json" THEN cf.val ELSE EmptyMap

\* The try block of Cache.read (lines 36-46).
ReadBody(f, cf, of) ==
  LET currentChecksums == ChecksumCalculate(f)
      storedChecksum == ChecksumRead(cf)
  IN IF currentChecksums.thrown THEN Thrown
     ELSE IF currentChecksums.val # storedChecksum THEN Returned(Null)
     ELSE IF of.kind # "json" THEN Thrown
     ELSE Returned(of.val)

\* Variant of Cache.read that compares the cmd and globs keys only.
CacheReadShallow(f, cf, of) ==
  LET currentChecksums == ChecksumCalculate(f)
      storedChecksum == ChecksumRead(cf)
      Same(k) == /\ k \in DOMAIN storedChecksum
                 /\ storedChecksum[k] = currentChecksums.val[k]
  IN IF currentChecksums.thrown THEN Returned(Null)
     ELSE IF ~(Same(CmdKey) /\ Same(GlobsKey)) THEN Returned(Null)
     ELSE IF of.kind # "json" THEN Returned(Null)
     ELSE Returned(of.val)

\* Cache.read (lines 34-55): whatever the try block throws is a miss.
CacheRead(f, cf, of) ==
  IF ReadBody(f, cf, of).thrown THEN Returned(Null) ELSE ReadBody(f, cf, of)

(* Cache.write (lines 57-77).  toWrite is computed (line 60) and not used: *)
(* what is serialized at line 64 is the Checksum instance, and that throws *)
(* when the workspace's object graph is circular, before any file is       *)
(* written.  Every error is caught at line 74.                             *)
CacheWrite(f, cf, of, memo, r, circular) ==
  IF ~memo /\ ChecksumCalculate(f).thrown
  THEN [checksumsFile |-> cf, outputFile |-> of, thrown |-> FALSE]
  ELSE IF circular
  THEN [checksumsFile |-> cf, outputFile |-> of, thrown |-> FALSE]
  ELSE [checksumsFile |-> ChecksumsContent("json", ObjectDump),
        outputFile |-> OutputContent("json", r), thrown |-> FALSE]

\* Variant of Cache.invalidate for which a missing file is an error too.
CacheInvalidateNoEnoent(cf, of, faultC, faultO) ==
  [checksumsFile |-> IF faultC THEN cf ELSE ChecksumsContent("absent", EmptyMap),
   outputFile |-> IF faultO THEN of ELSE OutputContent("absent", Null),
   thrown |-> faultC \/ faultO \/ cf.kind = "absent" \/ of.kind = "absent"]

(* Cache.invalidate (lines 79-105): each file is removed when it exists;   *)
(* faultC and faultO tell that the access or the unlink of the file fails  *)
(* with an error other than ENOENT, which makes the call throw.            *)
CacheInvalidate(cf, of, faultC, faultO) ==
  [checksumsFile |-> IF faultC THEN cf ELSE ChecksumsContent("absent", EmptyMap),
   outputFile |-> IF faultO THEN of ELSE OutputContent("absent", Null),
   thrown |-> faultC \/ faultO]

\* Variant of Workspace._run that serves the cache without testing force.
WorkspaceRunIgnoresForce(force, cached) ==
  IF cached # Null
  THEN [spawn |-> FALSE, fromCache |-> TRUE, commands |-> cached]
  ELSE [spawn |-> TRUE, fromCache |-> FALSE, commands |-> Null]

(* Workspace._run (part_017, lines 441-473) once cache.read has returned:  *)
(* the cached results without a process, or _runCommandsAndCache.          *)
WorkspaceRun(force, cached) ==
  IF ~force /\ cached # Null
  THEN [spawn |-> FALSE, fromCache |-> TRUE, commands |-> cached]
  ELSE [spawn |-> TRUE, fromCache |-> FALSE, commands |-> Null]

\* A task that has not run.
IdleTask ==
  [force |-> FALSE, cached |-> Null, spawned |-> FALSE, status |-> "none",
   fromCache |-> FALSE, commands |-> Null, subscribed |-> TRUE,
   reported |-> "NONE", afterFailure |-> FALSE]

\* The cache is not followed.
NoCache ==
  /\ files = [p \in Paths |-> 0]
  /\ checksumsFile = ChecksumsContent("absent", EmptyMap)
  /\ outputFile = OutputContent("absent", Null)
  /\ memoSet = FALSE
  /\ calls = <<>>
  /\ pc = "idle"
  /\ task = IdleTask

-----------------------------------------------------------------------------
(* The project: the workspaces, their dependencies and their changed files *)
(* (project.ts, workspace.ts).                                             *)

\* The dependency graphs: per workspace, the workspaces named in the
\* dependencies and devDependencies of its package.json, itself excepted.
Graphs == {g \in [Ws -> SUBSET Ws] : \A w \in Ws : w \notin g[w]}

\* Workspace.dependencies(): the dependencies in the order of the keys of
\* package.json, taken here to be the order of the names.
Dependencies(g, w) == SeqOfSet(g[w])

\* Workspace.dependents(): the other workspaces that depend on w.
Dependents(g, w) == {v \in Ws \ {w} : w \in g[v]}

\* Project.roots(): the workspaces no other workspace depends on.
Roots(g) == SeqOfSet({w \in Ws : Dependents(g, w) = {}})

\* The workspaces reachable from the set S along the dependencies, S included.
RECURSIVE Closure(_, _)
Closure(g, S) ==
  LET T == S \cup UNION {g[w] : w \in S}
  IN IF T = S THEN S ELSE Closure(g, T)

\* No workspace depends on itself through its dependencies.
Acyclic(g) == \A w \in Ws : w \notin Closure(g, g[w])

\* The pattern '**'; a pattern p in Paths matches the file p and no other.
AnyGlob == 0
Globs == {AnyGlob} \cup Paths

\* patterns[0] === '**' (undefined on an empty array).
FirstIsAnyGlob(patterns) == Len(patterns) > 0 /\ patterns[1] = AnyGlob

\* glob(join(rel, pattern)): the files on disk the pattern matches.
Glob(onDisk, pattern) ==
  IF pattern = AnyGlob THEN onDisk ELSE onDisk \cap {pattern}

(* Workspace._testAffected: diffs is the set of paths git diff names under *)
(* the root of the workspace, onDisk the set of paths of the workspace     *)
(* that are on disk and that fast-glob lists.                              *)
TestAffected(diffs, onDisk, patterns) ==
  IF Len(patterns) = 0 /\ FirstIsAnyGlob(patterns)
  THEN diffs # {}
  ELSE LET matched == UNION {Glob(onDisk, patterns[i]) : i \in DOMAIN patterns}
       IN \E d \in diffs : d \in matched

\* _testAffected on workspace w with the default patterns, every file of
\* the workspace on disk, and a modified file in the workspaces of changed.
LocalAffected(changed, w) ==
  TestAffected(IF w \in changed THEN {1} ELSE {}, Paths, <<AnyGlob>>)

\* The state of one isAffected call: the Set tested, the workspaces
\* _testAffected was called on, in order, and the value returned.
NewTest == [tested |-> {}, order |-> <<>>, val |-> FALSE]

RECURSIVE TestDepsAffected(_, _, _, _)
RECURSIVE TestDependencies(_, _, _, _)

\* The loop of _testDepsAffected with one iteration only: the result of
\* the first dependency is returned whatever it is.
TestFirstDependencyOnly(g, changed, q, st) ==
  IF q = <<>> \/ Head(q) \in st.tested THEN [st EXCEPT !.val = FALSE]
  ELSE TestDepsAffected(g, changed, Head(q), st)

\* Workspace._testDepsAffected, the loop over the dependencies q.
TestDependencies(g, changed, q, st) ==
  IF q = <<>> THEN [st EXCEPT !.val = FALSE]
  ELSE IF Head(q) \in st.tested THEN TestDependencies(g, changed, Tail(q), st)
  ELSE LET r == TestDepsAffected(g, changed, Head(q), st)
       IN IF r.val THEN r ELSE TestDependencies(g, changed, Tail(q), r)

\* Workspace._testDepsAffected on workspace w.
TestDepsAffected(g, changed, w, st) ==
  LET t == [st EXCEPT !.tested = @ \cup {w}, !.order = Append(@, w)]
  IN IF LocalAffected(changed, w) THEN [t EXCEPT !.val = TRUE]
     ELSE TestDependencies(g, changed, Dependencies(g, w), t)

\* Workspace.isAffected with valid revisions and the default patterns.
IsAffected(g, changed, w, topological) ==
  IF ~topological
  THEN [NewTest EXCEPT !.order = <<w>>, !.val = LocalAffected(changed, w)]
  ELSE TestDepsAffected(g, changed, w, NewTest)

(* getTopologicallySortedWorkspaces.  visitWorkspace keeps no record of    *)
(* the workspaces it is visiting: on a workspace that is on the current    *)
(* path the recursion never ends, and the call throws when the stack is    *)
(* exhausted.  path is the current path, acc the Set sortedWorkspaces and  *)
(* whether the call has thrown.                                            *)
RECURSIVE VisitWorkspace(_, _, _, _)
RECURSIVE VisitAll(_, _, _, _)

\* visitWorkspace adding the workspace before it visits its dependencies.
VisitWorkspacePreOrder(g, w, path, acc) ==
  IF w \in path THEN [acc EXCEPT !.thrown = TRUE]
  ELSE VisitAll(g, Dependencies(g, w), path \cup {w},
                [acc EXCEPT !.sorted = SetAdd(@, w)])

VisitWorkspace(g, w, path, acc) ==
  IF w \in path THEN [acc EXCEPT !.thrown = TRUE]
  ELSE LET a == VisitAll(g, Dependencies(g, w), path \cup {w}, acc)
       IN IF a.thrown THEN a ELSE [a EXCEPT !.sorted = SetAdd(@, w)]

VisitAll(g, q, path, acc) ==
  IF q = <<>> \/ acc.thrown THEN acc
  ELSE VisitAll(g, Tail(q), path, VisitWorkspace(g, Head(q), path, acc))

\* to = 0: no argument.
GetTopologicallySortedWorkspaces(g, to) ==
  VisitAll(g, IF to = 0 THEN Roots(g) ELSE <<to>>, {},
           [sorted |-> <<>>, thrown |-> FALSE])

\* No call yet.
NoProbe ==
  [called |-> FALSE, diffs |-> {}, onDisk |-> {}, patterns |-> <<>>, val |-> FALSE]
NoOutcome ==
  [op |-> "none", ws |-> 0, topological |-> FALSE, changed |-> {},
   val |-> FALSE, order |-> <<>>, sorted |-> <<>>, thrown |-> FALSE]

\* The project is not followed.
NoProject ==
  /\ deps = [w \in Ws |-> {}]
  /\ loaded = "none"
  /\ probe = NoProbe
  /\ outcome = NoOutcome

-----------------------------------------------------------------------------
(* The supervision of a daemon (workspace.ts, _handleDaemon): the race of  *)
(* the log conditions and the crash watcher.  The record d is the state of *)
(* one supervision:                                                        *)
(*   phase      "none", "watching" (race$ subscribed, the promise          *)
(*              pending), "resolved" or "rejected"                         *)
(*   conds      the log conditions, in the order of the config             *)
(*   timers     the conditions whose timer is armed                        *)
(*   alive      the process has not exited                                 *)
(*   killed     the flag killed                                            *)
(*   signalled  cmdProcess.kill() was called                               *)
(*   trace      history: kill, resolve and reject in the order of the calls*)
(*   first      history: the first event that occurred                     *)

\* Largest number of log conditions of a daemon.
MaxConds == 2

\* ILogsCondition: its type and its matcher (only 'contains' is handled).
Conditions == [type : {"success", "failure"}, matcher : {"contains", "regex"}]

ConditionLists == UNION {[1..n -> Conditions] : n \in 1..MaxConds}

NoDaemon ==
  [phase |-> "none", conds |-> <<>>, timers |-> {}, alive |-> FALSE,
   killed |-> FALSE, signalled |-> FALSE, trace |-> <<>>, first |-> "none"]

\* History: the event is the first one if none occurred before.
Occurs(d, event) == IF d.first = "none" THEN [d EXCEPT !.first = event] ELSE d

\* finalize: every timer is cleared.
Finalize(d) == [d EXCEPT !.timers = {}]

\* race$ emits and completes: the promise is resolved.
DaemonResolve(d) ==
  Finalize([d EXCEPT !.phase = "resolved", !.trace = Append(@, "resolve")])

\* race$ errors: catchError kills the process and rethrows, the promise is
\* rejected.
DaemonReject(d) ==
  Finalize([d EXCEPT !.killed = TRUE, !.signalled = TRUE,
                     !.trace = @ \o <<"kill", "reject">>,
                     !.phase = "rejected"])

\* obs.next followed by obs.complete on an inner observable of the race:
\* ignored once the race has unsubscribed it.
DaemonNext(d) == IF d.phase = "watching" THEN DaemonResolve(d) ELSE d

\* obs.error that is delivered whether the race has ended or not.
DaemonErrorUnguarded(d) == DaemonReject(d)

\* obs.error on an inner observable of the race.
DaemonError(d) == IF d.phase = "watching" THEN DaemonReject(d) ELSE d

\* The 'data' listeners of the conditions q, in the order they were
\* registered, on a chunk that includes the values of the conditions of M.
RECURSIVE OnData(_, _, _)
OnData(d, q, M) ==
  IF q = <<>> THEN d
  ELSE LET i == Head(q)
           cleared == Occurs([d EXCEPT !.timers = @ \ {i}], d.conds[i].type)
       IN IF d.conds[i].matcher = "contains" /\ i \in M
          THEN OnData(IF d.conds[i].type = "success" THEN DaemonNext(cleared)
                      ELSE DaemonError(cleared),
                      Tail(q), M)
          ELSE OnData(d, Tail(q), M)

-----------------------------------------------------------------------------
(* kill(cmd) (workspace.ts, kill, _killProcess, _killProcessTree).  The    *)
(* record k is the state of one call:                                      *)
(*   phase     "idle", "killing" (the promise of kill is pending) or       *)
(*             "resolved"                                                  *)
(*   roots     the processes registered for the target                     *)
(*   parents   the roots that have descendants                             *)
(*   closed    the roots that have exited and reported 'close'             *)
(*   lookups   the roots with a pending processTree callback for SIGTERM   *)
(*   hard      the roots with a pending processTree callback for SIGKILL   *)
(*   termRoot, termDesc   the roots that received SIGTERM, the roots whose *)
(*             descendants received it                                     *)
(*   killRoot, killDesc   the same for SIGKILL                             *)
(*   timers    the roots whose release timer is armed                      *)
(*   done      the roots whose _killProcess promise is resolved            *)

\* Largest number of processes registered for a target.
MaxProcs == 2

Procs == 1..MaxProcs

NoKill ==
  [phase |-> "idle", roots |-> {}, parents |-> {},
   closed |-> {}, lookups |-> {}, hard |-> {}, termRoot |-> {},
   termDesc |-> {}, killRoot |-> {}, killDesc |-> {}, timers |-> {},
   done |-> {}]

(* The callback of processTree in _killProcessTree for root r: on an error *)
(* the root is signalled (and the loop over the undefined list throws),    *)
(* otherwise each descendant is signalled.                                 *)
KillProcessTree(k, r, err, sigRoot, sigDesc) ==
  IF err THEN [k EXCEPT ![sigRoot] = @ \cup {r}]
  ELSE [k EXCEPT ![sigDesc] = @ \cup {r}]

\* Promise.all: the promise of kill resolves when every _killProcess has.
KillSettle(k) ==
  IF k.phase = "killing" /\ k.done = k.roots
  THEN [k EXCEPT !.phase = "resolved"] ELSE k

\* The processes are not followed.
NoProcess ==
  /\ daemon = NoDaemon
  /\ kills = NoKill

\* The Watcher as constructed (second revision of watcher.ts, lines 61-70):
\* one subject, no file-system watcher, no interval.
NoWatcher ==
  [calls |-> 0, cur |-> 0, live |-> FALSE, streams |-> <<>>, open |-> {},
   closed |-> {}, held |-> <<0, 0>>, buffers |-> <<>>, ticking |-> {},
   raw |-> <<>>, delivered |-> <<>>, completed |-> {}]

\* debounceTime holds no value and nothing was reported.
NoDebounce == [pending |-> 0, reported |-> <<>>, forwarded |-> {}, emitted |-> <<>>]

\* No process was spawned for the target.
NoRegistry ==
  [spawned |-> 0, handles |-> {}, running |-> {}, daemons |-> {},
   ended |-> {}, signalled |-> {}, stale |-> {}]

\* No cache operation is in flight.
NoRace ==
  [other |-> "none", results |-> 0, read |-> "none", returned |-> 0,
   wroteC |-> FALSE, wroteO |-> FALSE, genC |-> 0, genO |-> 0,
   sawC |-> 0, sawO |-> 0]

NoSide ==
  /\ fsw = NoWatcher
  /\ debounced = NoDebounce
  /\ registry = NoRegistry
  /\ racers = NoRace

NoWorld == NoProject /\ NoProcess /\ NoSide

-----------------------------------------------------------------------------
(* Initial states: runCommand has been subscribed, targets.resolve is      *)
(* pending.  The options and the plan the resolver will return are drawn   *)
(* here; nothing of the scheduler has run.                                 *)

InitSched ==
  /\ resolution = "pending"
  /\ watching = FALSE
  /\ events = <<>>
  /\ batch = <<>>
  /\ firstEvent = "NONE"
  /\ nResolved = 0
  /\ stream = "open"
  /\ streamError = NoEvent
  /\ step = 0
  /\ queue = <<>>
  /\ active = {}
  /\ emitted = {}
  /\ executions = <<>>
  /\ stepErr = NoEvent
  /\ invQueue = <<>>
  /\ invActive = {}
  /\ invOrphans = {}
  /\ invRejected = <<>>
  /\ runInvoked = {}
  /\ wrp = <<>>
  /\ currentStep = 0

InitOptions ==
  /\ mode \in {"parallel", "topological"}
  /\ targets \in Plans(mode)
  /\ affected \in [Ws -> BOOLEAN]
  /\ hasCommand \in [Ws -> BOOLEAN]

Init == InitOptions /\ watch = FALSE /\ InitSched /\ NoCache /\ NoWorld

InitWatch == InitOptions /\ watch \in BOOLEAN /\ InitSched /\ NoCache /\ NoWorld

-----------------------------------------------------------------------------
(* Actions: one per callback.                                              *)

(* Watcher.watch (watcher.ts, lines 23-38) reads                           *)
(* target.workspace.config[cmd].src for every target of the plan; for a    *)
(* workspace without the command (hasCommand is !!config[cmd]) config[cmd] *)
(* is undefined and the read throws.                                       *)
WatcherThrows == \E k \in 1..Len(targets) : \E w \in Range(targets[k]) : ~hasCommand[w]

\* Variant of the resolution callback that subscribes the scheduled tasks
\* before it emits TARGETS_RESOLVED.
ResolveTargetsLate ==
  /\ resolution = "pending"
  /\ resolution' = "resolved"
  /\ LET e == Evt("TARGETS_RESOLVED", 0, "-", 0)
     IN IF targets = <<>>
        THEN Commit(ObsComplete(ObsNext(St, e))) /\ watching' = FALSE
        ELSE IF watch /\ WatcherThrows
        THEN Commit(ObsNext(St, e)) /\ watching' = FALSE
        ELSE Commit(ObsNext(SubscribeStep(St, 1), e)) /\ watching' = watch
  /\ UNCHANGED options

(* targets.resolve(...).then (lines 627-707): TARGETS_RESOLVED, then       *)
(* completion on an empty plan, else the scheduled tasks are subscribed    *)
(* (lines 634-639).  In watch mode the watcher is started first (line      *)
(* 645); when it throws the callback ends there, otherwise the source      *)
(* changes are subscribed and executeCurrentTasks runs (line 705).         *)
ResolveTargets ==
  /\ resolution = "pending"
  /\ resolution' = "resolved"
  /\ LET s == ObsNext(St, Evt("TARGETS_RESOLVED", 0, "-", 0))
     IN IF targets = <<>> THEN Commit(ObsComplete(s)) /\ watching' = FALSE
        ELSE IF watch /\ WatcherThrows THEN Commit(s) /\ watching' = FALSE
        ELSE Commit(SubscribeStep(s, 1)) /\ watching' = watch
  /\ UNCHANGED options

(* targets.resolve rejects: the promise chain of line 627 has no rejection *)
(* handler, so no callback of runCommand runs.                             *)
ResolveRejects ==
  /\ resolution = "pending"
  /\ resolution' = "rejected"
  /\ Commit(St)
  /\ UNCHANGED <<options, watching>>

(* Workspace.run emits its result: _executeCommandCatchingErrors maps it   *)
(* to an 'ok' execution (line 819), _mapToEventsAndInvalidateCacheIfNecessary *)
(* records it and emits NODE_PROCESSED (lines 831-836).  The task stays    *)
(* subscribed until run's observable completes.                            *)
RunResolves(w, fromCache) ==
  /\ w \in active
  /\ LET x == [status |-> "ok", fromCache |-> fromCache, target |-> w]
         s == [St EXCEPT !.executions = SetAdd(@, x),
                         !.active = @ \ {w}, !.emitted = @ \cup {w}]
     IN Commit(TasksNext(s, Evt("NODE_PROCESSED", w,
                                IF fromCache THEN "cache" ELSE "rebuilt",
                                step)))
  /\ UNCHANGED <<options, resolution, watching>>

\* Workspace.run's observable completes after its result: mergeAll frees
\* the slot.
RunCompletes(w) ==
  /\ w \in emitted
  /\ Commit(FillSlots([St EXCEPT !.emitted = @ \ {w}]))
  /\ UNCHANGED <<options, resolution, watching>>

\* Variant of _mapToEventsAndInvalidateCacheIfNecessary that raises
\* NODE_ERRORED as an error of the step in both modes.
RunRejectsRaises(w) ==
  /\ w \in active
  /\ LET x == [status |-> "ko", fromCache |-> FALSE, target |-> w]
         e == Evt("NODE_ERRORED", w, "-", step)
         s == [St EXCEPT !.executions = SetAdd(@, x), !.active = @ \ {w}]
     IN Commit(StepTasksError(s, e))
  /\ UNCHANGED <<options, resolution, watching>>

(* Workspace.run errors: catchError maps it to a 'ko' execution (line 820) *)
(* and completes; the execution is recorded, then NODE_ERRORED is raised   *)
(* as an error of the step in topological mode (line 838) and emitted as   *)
(* an event in parallel mode (line 841).                                   *)
RunRejects(w) ==
  /\ w \in active
  /\ LET x == [status |-> "ko", fromCache |-> FALSE, target |-> w]
         e == Evt("NODE_ERRORED", w, "-", step)
         s == [St EXCEPT !.executions = SetAdd(@, x), !.active = @ \ {w}]
     IN Commit(IF mode = "topological"
               THEN StepTasksError(s, e)
               ELSE FillSlots(TasksNext(s, e)))
  /\ UNCHANGED <<options, resolution, watching>>

(* Runner._invalidateCache (lines 847-854), promise fulfilled:             *)
(* CACHE_INVALIDATED, then completion; concatAll goes on when every        *)
(* invalidation of the current observable has completed.                   *)
InvalidateResolves(w) ==
  /\ w \in invActive
  /\ LET s == TasksNext([St EXCEPT !.invActive = @ \ {w}],
                        Evt("CACHE_INVALIDATED", w, "-", step))
     IN Commit(IF s.invActive = {} THEN NextInvalidation(s) ELSE s)
  /\ UNCHANGED <<options, resolution, watching>>

\* Variant of the invalidation error handlers that emits
\* ERROR_INVALIDATING_CACHE without obs.error: the step goes on.
InvalidateRejectsContinues(w) ==
  /\ w \in invActive
  /\ LET s == TasksNext([St EXCEPT !.invActive = @ \ {w},
                                   !.invRejected = Append(@, w)],
                        Evt("ERROR_INVALIDATING_CACHE", w, "-", step))
     IN Commit(IF s.invActive = {} THEN NextInvalidation(s) ELSE s)
  /\ UNCHANGED <<options, resolution, watching>>

(* Runner._invalidateCache, promise rejected: the error handlers of lines  *)
(* 759-764 and 771-776 emit ERROR_INVALIDATING_CACHE and error the step.   *)
(* The other invalidations of the observable are unsubscribed; their       *)
(* promises stay pending.                                                  *)
InvalidateRejects(w) ==
  /\ w \in invActive
  /\ LET e == Evt("ERROR_INVALIDATING_CACHE", w, "-", step)
         s == [St EXCEPT !.invActive = {}, !.invQueue = <<>>,
                         !.invOrphans = @ \cup (invActive \ {w}),
                         !.invRejected = Append(@, w)]
     IN Commit(TasksError(TasksNext(s, e), e))
  /\ UNCHANGED <<options, resolution, watching>>

\* An invalidate() promise settles after its observable was unsubscribed:
\* next and error reach a closed subscriber.
OrphanInvalidateSettles(w, ok) ==
  /\ w \in invOrphans
  /\ Commit([St EXCEPT !.invOrphans = @ \ {w},
                       !.invRejected = IF ok THEN @ ELSE Append(@, w)])
  /\ UNCHANGED <<options, resolution, watching>>

\* Variant of shouldAbort$'s subscriber that interrupts the first workspace
\* of _workspaceWithRunningProcesses only.
InterruptRunningFirstOnly(s, q) ==
  IF q = <<>> THEN s
  ELSE ObsNext(s, Evt("NODE_INTERRUPTED", Head(q), "-", 0))

(* shouldAbort$'s subscriber (lines 678-686): NODE_INTERRUPTED for every   *)
(* workspace of _workspaceWithRunningProcesses, whose processes are killed *)
(* (line 683); the set is left as it is.                                   *)
RECURSIVE InterruptRunning(_, _)
InterruptRunning(s, q) ==
  IF q = <<>> THEN s
  ELSE InterruptRunning(
         ObsNext(s, Evt("NODE_INTERRUPTED", Head(q), "-", 0)), Tail(q))

(* takeUntil(shouldAbort$) (line 657) unsubscribes the scheduled tasks:    *)
(* nothing of the aborted subscription is observed any more.  Its pending  *)
(* promises can no longer reach the scheduler and are not followed; the    *)
(* histories start again.                                                  *)
Unsubscribe(s) ==
  [s EXCEPT !.step = 0, !.queue = <<>>, !.active = {}, !.emitted = {},
            !.executions = <<>>, !.stepErr = NoEvent, !.invQueue = <<>>,
            !.invActive = {}, !.invOrphans = {}, !.invRejected = <<>>,
            !.runInvoked = {}, !.events = <<>>]

\* isBeforeOrEqualsCurrentStep (lines 648-653).
isBeforeOrEqualsCurrentStep(s, impactedStep) ==
  IF s.currentStep = 0 \/ impactedStep = 0 THEN FALSE
  ELSE impactedStep <= s.currentStep

\* Variant of the handler of a source change that aborts and does not
\* subscribe the scheduled tasks again.
SourcesChangeAbortOnly(w) ==
  /\ watching
  /\ stream = "open"
  /\ StepIndexOf(w) # 0
  /\ LET e == Evt("SOURCES_CHANGED", w, "-", currentStep)
     IN Commit(IF isBeforeOrEqualsCurrentStep(St, StepIndexOf(w))
               THEN Unsubscribe(InterruptRunning(ObsNext(St, e), wrp))
               ELSE ObsNext(St, e))
  /\ UNCHANGED <<options, resolution, watching>>

(* A debounced source change on workspace w (lines 687-704):               *)
(* SOURCES_CHANGED, and when the impacted step is not after the current    *)
(* one, abort, schedule every task again and subscribe.  On an abort the   *)
(* recorded events start again with those of the new subscription.  A run  *)
(* is followed until its subscriber has stopped.                           *)
SourcesChange(w) ==
  /\ watching
  /\ stream = "open"
  /\ StepIndexOf(w) # 0
  /\ LET e == Evt("SOURCES_CHANGED", w, "-", currentStep)
     IN Commit(IF isBeforeOrEqualsCurrentStep(St, StepIndexOf(w))
               THEN SubscribeStep(
                      Unsubscribe(InterruptRunning(ObsNext(St, e), wrp)), 1)
               ELSE ObsNext(St, e))
  /\ UNCHANGED <<options, resolution, watching>>

Next ==
  \/ ResolveTargets
  \/ ResolveRejects
  \/ \E w \in Ws : \E fromCache \in BOOLEAN : RunResolves(w, fromCache)
  \/ \E w \in Ws : RunCompletes(w)
  \/ \E w \in Ws : RunRejects(w)
  \/ \E w \in Ws : InvalidateResolves(w)
  \/ \E w \in Ws : InvalidateRejects(w)
  \/ \E w \in Ws : \E ok \in BOOLEAN : OrphanInvalidateSettles(w, ok)

\* A plain (non-watch) run.
Spec == Init /\ [][Next]_vars

NextWatch ==
  \/ Next
  \/ \E w \in Ws : SourcesChange(w)

\* Every run, plain or in watch mode.
SpecWatch == InitWatch /\ [][NextWatch]_vars

-----------------------------------------------------------------------------
(* The cache and one task on it.  The cache folder starts in any state: no *)
(* file, unparseable files, or files left by an earlier run.               *)

(* What checksums.json may hold when the cache is first used: fingerprints *)
(* of the current command over any state of the sources, the fingerprint   *)
(* of another command over the sources as they are (written before the     *)
(* configuration of the target was edited), or the dump of a Checksum.     *)
StoredChecksums(f) ==
  {ChecksumsContent("absent", EmptyMap), ChecksumsContent("garbage", EmptyMap),
   ChecksumsContent("json", ObjectDump)}
  \cup {ChecksumsContent("json", ChecksumsOf(1, g)) :
          g \in {h \in FileStates : \E p \in Paths : h[p] # 0}}
  \cup {ChecksumsContent("json", ChecksumsOf(c, f)) :
          c \in {d \in Cmds : \E p \in Paths : f[p] # 0}}

StoredOutputs ==
  {OutputContent("absent", Null), OutputContent("garbage", Null)}
  \cup {OutputContent("json", r) : r \in Results}

InitCache ==
  /\ mode = "parallel" /\ watch = FALSE /\ targets = <<>>
  /\ affected = [w \in Ws |-> FALSE] /\ hasCommand = [w \in Ws |-> FALSE]
  /\ InitSched
  /\ files \in FileStates
  /\ checksumsFile \in StoredChecksums(files)
  /\ outputFile \in StoredOutputs
  /\ memoSet = FALSE
  /\ calls = <<>>
  /\ pc = "idle"
  /\ task = IdleTask
  /\ NoWorld

\* The record of a call, and the history with it added.
(* The record of a call: its argument, whether the file system failed     *)
(* under it, and what it returned or threw.  The history keeps the last    *)
(* call and, of the one before, the method and the argument.               *)
Call(op, arg, fault, ret) ==
  [op |-> op, arg |-> arg, fault |-> fault, thrown |-> ret.thrown, val |-> ret.val]
Push(c) ==
  IF calls = <<>> THEN <<c>>
  ELSE <<Call(calls[Len(calls)].op, calls[Len(calls)].arg, FALSE, Returned(Null)), c>>

\* A source file is created, changed or removed, before the task runs.
SourceEdit(p, h) ==
  /\ pc = "idle"
  /\ files[p] # h
  /\ files' = [files EXCEPT ![p] = h]
  /\ calls' = <<>>
  /\ UNCHANGED <<checksumsFile, outputFile, memoSet, pc, task, options, sched, world>>

\* cache.read() on its own.
CallRead ==
  /\ pc = "idle"
  /\ calls' = Push(Call("read", Null, FALSE, CacheRead(files, checksumsFile, outputFile)))
  /\ memoSet' = (memoSet \/ ~ChecksumCalculate(files).thrown)
  /\ UNCHANGED <<files, checksumsFile, outputFile, pc, task, options, sched, world>>

\* cache.write(r) on its own.
CallWrite(r, circular) ==
  /\ pc = "idle"
  /\ LET w == CacheWrite(files, checksumsFile, outputFile, memoSet, r, circular)
     IN /\ checksumsFile' = w.checksumsFile
        /\ outputFile' = w.outputFile
        /\ calls' = Push(Call("write", r, FALSE, [thrown |-> w.thrown, val |-> Null]))
  /\ UNCHANGED <<files, memoSet, pc, task, options, sched, world>>

\* cache.invalidate() on its own.
CallInvalidate(faultC, faultO) ==
  /\ pc = "idle"
  /\ LET i == CacheInvalidate(checksumsFile, outputFile, faultC, faultO)
     IN /\ checksumsFile' = i.checksumsFile
        /\ outputFile' = i.outputFile
        /\ calls' = Push(Call("invalidate", Null, faultC \/ faultO,
                                [thrown |-> i.thrown, val |-> Null]))
  /\ UNCHANGED <<files, memoSet, pc, task, options, sched, world>>

(* Workspace.run(cmd, force) is subscribed (part_017, lines 475-499):      *)
(* _run makes a Cache, reads it, and serves the cached results or spawns   *)
(* the commands.                                                           *)
RunStart(force) ==
  /\ pc \in {"idle", "ended"}
  /\ LET cached == CacheRead(files, checksumsFile, outputFile).val
         d == WorkspaceRun(force, cached)
     IN /\ task' = [IdleTask EXCEPT
                      !.force = force, !.cached = cached, !.spawned = d.spawn,
                      !.status = IF d.spawn THEN "none" ELSE "ok",
                      !.fromCache = d.fromCache, !.commands = d.commands,
                      !.afterFailure = /\ pc = "ended"
                                       /\ task.status = "ko"
                                       /\ task.reported # "ERROR_INVALIDATING_CACHE"]
        /\ pc' = IF d.spawn THEN "running" ELSE "ended"
  /\ memoSet' = ~ChecksumCalculate(files).thrown
  /\ calls' = <<>>
  /\ UNCHANGED <<files, checksumsFile, outputFile, options, sched, world>>

(* _runCommandsAndCache (part_017, lines 407-439), the commands succeeded: *)
(* the results are written to the cache and returned.                      *)
CommandsSucceed(r, circular) ==
  /\ pc = "running"
  /\ LET w == CacheWrite(files, checksumsFile, outputFile, memoSet, r, circular)
     IN /\ checksumsFile' = w.checksumsFile
        /\ outputFile' = w.outputFile
  /\ task' = [task EXCEPT !.status = "ok", !.fromCache = FALSE, !.commands = r]
  /\ pc' = "ended"
  /\ UNCHANGED <<files, memoSet, calls, options, sched, world>>

(* _runCommandsAndCache, a command failed: the cache is invalidated, an    *)
(* error of the invalidation is logged only, and the failure is rethrown.  *)
(* A task the scheduler still observes is invalidated again by it.         *)
CommandsFail(faultC, faultO) ==
  /\ pc = "running"
  /\ LET i == CacheInvalidate(checksumsFile, outputFile, faultC, faultO)
     IN /\ checksumsFile' = i.checksumsFile
        /\ outputFile' = i.outputFile
  /\ task' = [task EXCEPT !.status = "ko"]
  /\ pc' = IF task.subscribed THEN "failed" ELSE "ended"
  /\ UNCHANGED <<files, memoSet, calls, options, sched, world>>

(* The scheduler unsubscribes the task: mergeAll after the error of        *)
(* another task of a topological step (runner.ts, lines 724-726 and 838),  *)
(* or takeUntil on an abort (line 657).  Workspace.run has no teardown:    *)
(* the commands go on.                                                     *)
Unsubscribed ==
  /\ pc \in {"running", "failed"}
  /\ task.subscribed
  /\ task' = [task EXCEPT !.subscribed = FALSE]
  /\ pc' = IF pc = "failed" THEN "ended" ELSE pc
  /\ UNCHANGED <<files, checksumsFile, outputFile, memoSet, calls, options, sched, world>>

(* The scheduler invalidates the cache of the failed task (runner.ts,      *)
(* lines 737-739 and 847-854) and reports CACHE_INVALIDATED or             *)
(* ERROR_INVALIDATING_CACHE.                                               *)
RunnerInvalidate(faultC, faultO) ==
  /\ pc = "failed"
  /\ LET i == CacheInvalidate(checksumsFile, outputFile, faultC, faultO)
     IN /\ checksumsFile' = i.checksumsFile
        /\ outputFile' = i.outputFile
        /\ task' = [task EXCEPT !.reported = IF i.thrown
                                             THEN "ERROR_INVALIDATING_CACHE"
                                             ELSE "CACHE_INVALIDATED"]
  /\ pc' = "ended"
  /\ UNCHANGED <<files, memoSet, calls, options, sched, world>>

(* The invalidation of a task that failed earlier in the step fails:       *)
(* concatAll (runner.ts, line 749) never subscribes the invalidation of    *)
(* this one and the run reports ERROR_INVALIDATING_CACHE.                  *)
OtherInvalidationFails ==
  /\ pc = "failed"
  /\ task' = [task EXCEPT !.reported = "ERROR_INVALIDATING_CACHE"]
  /\ pc' = "ended"
  /\ UNCHANGED <<files, checksumsFile, outputFile, memoSet, calls, options, sched, world>>

NextCache ==
  \/ \E p \in Paths : \E h \in Hashes \cup {0} : SourceEdit(p, h)
  \/ CallRead
  \/ \E r \in Results : \E circular \in BOOLEAN : CallWrite(r, circular)
  \/ \E faultC, faultO \in BOOLEAN : CallInvalidate(faultC, faultO)
  \/ \E force \in BOOLEAN : RunStart(force)
  \/ \E r \in Results : \E circular \in BOOLEAN : CommandsSucceed(r, circular)
  \/ \E faultC, faultO \in BOOLEAN : CommandsFail(faultC, faultO)
  \/ Unsubscribed
  \/ \E faultC, faultO \in BOOLEAN : RunnerInvalidate(faultC, faultO)
  \/ OtherInvalidationFails

\* The cache of one target and the tasks run on it.
SpecCache == InitCache /\ [][NextCache]_vars

-----------------------------------------------------------------------------
(* The project on its own: no command is run and no cache is used.         *)

\* Longest list of patterns given to isAffected.
MaxPatterns == 2

PatternLists == UNION {[1..n -> Globs] : n \in 0..MaxPatterns}

\* No run is followed.
NoRun ==
  /\ mode = "parallel" /\ watch = FALSE /\ targets = <<>>
  /\ affected = [w \in Ws |-> FALSE] /\ hasCommand = [w \in Ws |-> FALSE]
  /\ InitSched

beyondProject == <<options, sched, cache, process, side>>

(* Project.loadProject: loadWorkspaces loads every package.json the        *)
(* workspace patterns match and fails when one cannot be loaded.           *)
LoadProject(readable) ==
  /\ loaded = "none"
  /\ loaded' = IF readable THEN "loaded" ELSE "failed"
  /\ UNCHANGED <<deps, probe, outcome, beyondProject>>

\* workspace.isAffected(rev1, rev2, ['**'], topological) on a loaded project.
CallIsAffected(w, topological, changed) ==
  /\ loaded = "loaded"
  /\ outcome = NoOutcome
  /\ LET r == IsAffected(deps, changed, w, topological)
     IN outcome' = [NoOutcome EXCEPT !.op = "isAffected", !.ws = w,
                                     !.topological = topological,
                                     !.changed = changed,
                                     !.val = r.val, !.order = r.order]
  /\ UNCHANGED <<deps, loaded, probe, beyondProject>>

\* project.getTopologicallySortedWorkspaces(to) on a loaded project.
CallSort(to) ==
  /\ loaded = "loaded"
  /\ outcome = NoOutcome
  /\ LET r == GetTopologicallySortedWorkspaces(deps, to)
     IN outcome' = [NoOutcome EXCEPT !.op = "sort", !.ws = to,
                                     !.sorted = r.sorted, !.thrown = r.thrown]
  /\ UNCHANGED <<deps, loaded, probe, beyondProject>>

InitProject ==
  /\ NoRun /\ NoCache
  /\ deps \in Graphs
  /\ loaded = "none"
  /\ probe = NoProbe
  /\ outcome = NoOutcome
  /\ NoProcess /\ NoSide

NextProject ==
  \/ \E readable \in BOOLEAN : LoadProject(readable)
  \/ \E w \in Ws : \E topological \in BOOLEAN : \E changed \in SUBSET Ws :
       CallIsAffected(w, topological, changed)
  \/ \E to \in 0..NumWs : CallSort(to)

SpecProject == InitProject /\ [][NextProject]_vars

\* workspace._testAffected(rev1, rev2, patterns) on one workspace.
CallTestAffected(diffs, onDisk, patterns) ==
  /\ ~probe.called
  /\ probe' = [called |-> TRUE, diffs |-> diffs, onDisk |-> onDisk,
               patterns |-> patterns,
               val |-> TestAffected(diffs, onDisk, patterns)]
  /\ UNCHANGED <<deps, loaded, outcome, beyondProject>>

InitAffected == NoRun /\ NoCache /\ NoWorld

NextAffected ==
  \E diffs \in SUBSET Paths : \E onDisk \in SUBSET Paths :
    \E patterns \in PatternLists : CallTestAffected(diffs, onDisk, patterns)

SpecAffected == InitAffected /\ [][NextAffected]_vars

-----------------------------------------------------------------------------
(* One daemon under supervision.                                           *)

beyondDaemon == <<options, sched, cache, project, kills, side>>

(* _handleDaemon: race$ is subscribed.  With stdio 'pipe' the process has  *)
(* its log streams and every condition arms its timer; with 'inherit' it   *)
(* has none and the first condition errors at once.                        *)
HandleDaemon(conds, readable) ==
  /\ daemon.phase = "none"
  /\ LET d == [NoDaemon EXCEPT !.conds = conds, !.alive = TRUE,
                               !.phase = "watching"]
     IN daemon' = IF readable THEN [d EXCEPT !.timers = DOMAIN conds]
                  ELSE DaemonError(Occurs(d, "unreadable"))
  /\ UNCHANGED beyondDaemon

\* The process writes a chunk that includes the values of the conditions
\* of M.
DaemonData(M) ==
  /\ daemon.phase # "none"
  /\ daemon.first # "unreadable"
  /\ daemon.alive
  /\ M \subseteq DOMAIN daemon.conds
  /\ M # {}
  /\ daemon' = OnData(daemon, SeqOfSet(DOMAIN daemon.conds), M)
  /\ UNCHANGED beyondDaemon

\* The timer of condition i expires.
DaemonTimeout(i) ==
  /\ i \in daemon.timers
  /\ daemon' = DaemonError(Occurs([daemon EXCEPT !.timers = @ \ {i}], "timeout"))
  /\ UNCHANGED beyondDaemon

\* The promise of the process rejects: it failed or was killed.
DaemonCrashes ==
  /\ daemon.phase # "none"
  /\ daemon.alive
  /\ LET d == [daemon EXCEPT !.alive = FALSE]
     IN daemon' = IF d.killed THEN d ELSE DaemonError(Occurs(d, "crash"))
  /\ UNCHANGED beyondDaemon

\* The process exits with code 0: its promise resolves, nobody listens.
DaemonExits ==
  /\ daemon.phase # "none"
  /\ daemon.alive
  /\ daemon' = [daemon EXCEPT !.alive = FALSE]
  /\ UNCHANGED beyondDaemon

InitDaemon == NoRun /\ NoCache /\ NoWorld

NextDaemon ==
  \/ \E conds \in ConditionLists : \E readable \in BOOLEAN :
       HandleDaemon(conds, readable)
  \/ \E M \in SUBSET (1..MaxConds) : DaemonData(M)
  \/ \E i \in 1..MaxConds : DaemonTimeout(i)
  \/ DaemonCrashes
  \/ DaemonExits

SpecDaemon == InitDaemon /\ [][NextDaemon]_vars

-----------------------------------------------------------------------------
(* One call of kill(cmd) on a workspace with running processes.            *)

beyondKill == <<options, sched, cache, project, daemon, side>>

(* kill(cmd): for every registered process _killProcess listens to         *)
(* 'close', arms the release timer (releasePorts is an array, always       *)
(* truthy) and asks for the process tree.                                  *)
Kill ==
  /\ kills.phase = "idle"
  /\ kills' = KillSettle([kills EXCEPT !.phase = "killing",
                                       !.timers = kills.roots,
                                       !.lookups = kills.roots])
  /\ UNCHANGED beyondKill

\* processTree calls back for the SIGTERM of root r.
TreeListed(r, err) ==
  /\ r \in kills.lookups
  /\ kills' = KillProcessTree([kills EXCEPT !.lookups = @ \ {r}], r, err,
                              "termRoot", "termDesc")
  /\ UNCHANGED beyondKill

\* processTree calls back for the SIGKILL of root r.
HardTreeListed(r, err) ==
  /\ r \in kills.hard
  /\ kills' = KillProcessTree([kills EXCEPT !.hard = @ \ {r}], r, err,
                              "killRoot", "killDesc")
  /\ UNCHANGED beyondKill

\* Root r exits and reports close: its _killProcess promise resolves.
RootCloses(r) ==
  /\ kills.phase # "idle"
  /\ r \in kills.roots \ kills.closed
  /\ kills' = KillSettle([kills EXCEPT !.closed = @ \cup {r},
                                       !.done = @ \cup {r}])
  /\ UNCHANGED beyondKill

(* The release timer of root r fires: when a port is still busy and the    *)
(* process has not closed, SIGKILL is sent to the tree; the promise of     *)
(* _killProcess resolves in every case.                                    *)
ReleaseTimerFires(r, busy) ==
  /\ r \in kills.timers
  /\ kills' = KillSettle([kills EXCEPT
                 !.timers = @ \ {r},
                 !.hard = IF busy /\ r \notin kills.closed THEN @ \cup {r} ELSE @,
                 !.done = @ \cup {r}])
  /\ UNCHANGED beyondKill

InitKill ==
  /\ NoRun /\ NoCache /\ NoProject /\ NoSide
  /\ daemon = NoDaemon
  /\ \E R \in SUBSET Procs : \E P \in SUBSET R :
       kills = [NoKill EXCEPT !.roots = R, !.parents = P]

NextKill ==
  \/ Kill
  \/ \E r \in Procs : \E err \in BOOLEAN : TreeListed(r, err)
  \/ \E r \in Procs : \E err \in BOOLEAN : HardTreeListed(r, err)
  \/ \E r \in Procs : RootCloses(r)
  \/ \E r \in Procs : \E busy \in BOOLEAN : ReleaseTimerFires(r, busy)

SpecKill == InitKill /\ [][NextKill]_vars

-----------------------------------------------------------------------------
(* Reading the recorded events.                                            *)

Terminal == {"NODE_PROCESSED", "NODE_ERRORED"}

\* Positions of the events of the given types about workspace w.
Pos(types, w) ==
  {i \in DOMAIN events : events[i].type \in types /\ events[i].ws = w}

Count(types, w) == Cardinality(Pos(types, w))

PlanWs == UNION {Range(targets[k]) : k \in 1..Len(targets)}

Runnable(w) == affected[w] /\ hasCommand[w]

\* Workspaces of the steps after step k.
LaterWs(k) == UNION {Range(targets[j]) : j \in (k + 1)..Len(targets)}

\* The run has ended: the subscriber got complete() or error().
Terminated == stream # "open"

-----------------------------------------------------------------------------
(* C1: whenever target resolution succeeds, in a plain run or in watch     *)
(* mode and across aborts and reschedules, TARGETS_RESOLVED is the first   *)
(* event the subscriber receives and it is received exactly once; before   *)
(* resolution, or when it fails, the subscriber receives nothing.          *)
TargetsResolvedFirstAndOnce ==
  /\ resolution = "resolved" =>
       /\ firstEvent = "TARGETS_RESOLVED"
       /\ nResolved = 1
  /\ resolution # "resolved" => firstEvent = "NONE" /\ nResolved = 0

\* C1 witness: a watch run that was aborted with processes running and has
\* started its tasks again.
TargetsResolvedWitness ==
  /\ watching
  /\ \E i \in DOMAIN batch : batch[i].type = "NODE_INTERRUPTED"
  /\ \E i \in DOMAIN events : events[i].type = "NODE_STARTED"
  /\ nResolved = 1

-----------------------------------------------------------------------------
(* C2: in every run and every pass, for each workspace W, the started and  *)
(* terminal events about W form a prefix of                                *)
(* [NODE_STARTED, NODE_PROCESSED | NODE_ERRORED]: a terminal event is      *)
(* preceded by the NODE_STARTED of its pass and a NODE_STARTED is followed *)
(* by at most one terminal event.                                          *)
LifecycleOf(w) ==
  LET IsLifecycle(e) == e.ws = w /\ e.type \in Terminal \cup {"NODE_STARTED"}
      q == SelectSeq(events, IsLifecycle)
  IN [i \in DOMAIN q |-> q[i].type]

NodeLifecyclePrefix ==
  \A w \in Ws :
    LifecycleOf(w) \in {<<>>, <<"NODE_STARTED">>,
                        <<"NODE_STARTED", "NODE_PROCESSED">>,
                        <<"NODE_STARTED", "NODE_ERRORED">>}

\* C2 witness: a topological step ended by an error while another task of
\* the step was started and had not finished.
NodeLifecycleWitness ==
  \E v, w \in Ws :
    /\ LifecycleOf(v) = <<"NODE_STARTED", "NODE_ERRORED">>
    /\ LifecycleOf(w) = <<"NODE_STARTED">>
    /\ StepIndexOf(v) = StepIndexOf(w)
    /\ stream = "errored"

-----------------------------------------------------------------------------
(* C3: in a plain run the steps execute in strict sequence: when a         *)
(* NODE_STARTED or NODE_SKIPPED of a workspace of step k+1 is emitted,     *)
(* every workspace of step k has already emitted its NODE_SKIPPED or its   *)
(* terminal event.                                                         *)
StepsInStrictSequence ==
  \A i \in DOMAIN events :
    (/\ events[i].type \in {"NODE_STARTED", "NODE_SKIPPED"}
     /\ StepIndexOf(events[i].ws) > 1)
    => \A w \in Range(targets[StepIndexOf(events[i].ws) - 1]) :
         \E j \in 1..(i - 1) :
           /\ events[j].ws = w
           /\ events[j].type \in Terminal \cup {"NODE_SKIPPED"}

\* C3 witness: a second step has begun after a first step in which more
\* tasks ran than the concurrency allows at once.
StepsInStrictSequenceWitness ==
  /\ Len(targets) > 1
  /\ \A w \in Range(targets[1]) : Runnable(w)
  /\ Len(targets[1]) > 1
  /\ \E i \in DOMAIN events :
       /\ events[i].type = "NODE_STARTED"
       /\ StepIndexOf(events[i].ws) = 2

-----------------------------------------------------------------------------
(* Steps and their invalidations in the recorded events.                   *)

\* Some task of step k errored or finished with a result not from cache.
Triggered(k) ==
  \E i \in DOMAIN events :
    /\ events[i].step = k
    /\ \/ events[i].type = "NODE_ERRORED"
       \/ events[i].type = "NODE_PROCESSED" /\ events[i].info = "rebuilt"

\* Step k is over: a later step has emitted or the run has ended.
StepOver(k) == Terminated \/ \E i \in DOMAIN events : events[i].step > k

\* Position p holds a CACHE_INVALIDATED{w} that follows every terminal
\* event of step k and precedes every event of the later steps.
InvalidatedAfterStep(p, w, k) ==
  /\ events[p].type = "CACHE_INVALIDATED"
  /\ events[p].ws = w
  /\ \A i \in DOMAIN events :
       (events[i].type \in Terminal /\ StepIndexOf(events[i].ws) = k) => i < p
  /\ \A i \in DOMAIN events :
       (/\ events[i].type \in Terminal \cup {"NODE_STARTED", "NODE_SKIPPED"}
        /\ StepIndexOf(events[i].ws) > k) => p < i

\* No cache invalidation has failed.
InvalidationsSucceed == invRejected = <<>>

(* C4: in a topological run in which the cache invalidations succeed, once *)
(* step k is over: if a task of step k errored or finished not from cache, *)
(* CACHE_INVALIDATED{W} was emitted for every workspace W of every later   *)
(* step, after every terminal event of step k and before any event of step *)
(* k+1 and before the end of the stream; otherwise step k emitted no       *)
(* CACHE_INVALIDATED.                                                      *)
RebuildInvalidatesLaterSteps ==
  (mode = "topological" /\ InvalidationsSucceed) =>
    \A k \in 1..Len(targets) :
      StepOver(k) =>
        IF Triggered(k)
        THEN \A w \in LaterWs(k) :
               \E p \in DOMAIN events : InvalidatedAfterStep(p, w, k)
        ELSE \A p \in DOMAIN events :
               ~(events[p].type = "CACHE_INVALIDATED" /\ events[p].step = k)

\* C4 witness: a topological run completed in which a task of the first
\* step was rebuilt and later steps ran.
RebuildInvalidatesWitness ==
  /\ mode = "topological"
  /\ stream = "completed"
  /\ Len(targets) > 1
  /\ \E i \in DOMAIN events :
       /\ events[i].step = 1
       /\ events[i].type = "NODE_PROCESSED"
       /\ events[i].info = "rebuilt"
  /\ \E i \in DOMAIN events :
       events[i].step = 2 /\ events[i].type = "NODE_PROCESSED"

-----------------------------------------------------------------------------
(* C5: in a topological run, when the task of workspace W of step k        *)
(* errors: no workspace of a later step is ever started; and when the      *)
(* cache invalidations succeed the stream ends only after                  *)
(* CACHE_INVALIDATED was emitted for W and for every workspace of the      *)
(* later steps, and it ends with an error whose payload is the             *)
(* NODE_ERRORED{W} event.                                                  *)
TopologicalErrorPropagation ==
  mode = "topological" =>
    \A i \in DOMAIN events :
      events[i].type = "NODE_ERRORED" =>
        LET w == events[i].ws
            k == StepIndexOf(w)
        IN /\ \A j \in DOMAIN events :
                events[j].type = "NODE_STARTED"
                  => StepIndexOf(events[j].ws) <= k
           /\ (Terminated /\ InvalidationsSucceed) =>
                /\ stream = "errored"
                /\ streamError = events[i]
                /\ \A v \in {w} \cup LaterWs(k) :
                     \E p \in DOMAIN events :
                       /\ p > i
                       /\ events[p].type = "CACHE_INVALIDATED"
                       /\ events[p].ws = v

\* C5 witness: a topological run ended by the error of a task that has
\* later steps behind it.
TopologicalErrorWitness ==
  /\ mode = "topological"
  /\ stream = "errored"
  /\ streamError.type = "NODE_ERRORED"
  /\ LaterWs(StepIndexOf(streamError.ws)) # {}

-----------------------------------------------------------------------------
(* C6: in a parallel run in which the cache invalidations succeed, a       *)
(* failing task never makes the stream error and never keeps another task  *)
(* from running: the stream does not error; every failed execution is      *)
(* reported by one NODE_ERRORED event; once nothing is pending the stream  *)
(* has completed, and then every affected workspace with the command has   *)
(* emitted NODE_STARTED once and one terminal event.                       *)
Quiescent ==
  /\ resolution = "resolved"
  /\ queue = <<>> /\ active = {} /\ emitted = {} /\ invActive = {}

ParallelErrorsAreEvents ==
  (mode = "parallel" /\ InvalidationsSucceed) =>
    /\ stream # "errored"
    /\ \A i \in DOMAIN executions :
         executions[i].status = "ko"
           => Count({"NODE_ERRORED"}, executions[i].target) = 1
    /\ Quiescent => stream = "completed"
    /\ stream = "completed" =>
         \A w \in PlanWs :
           Runnable(w) => /\ Count({"NODE_STARTED"}, w) = 1
                          /\ Count(Terminal, w) = 1

\* C6 witness: a parallel run completed in which a task failed and another
\* task was processed after the failure.
ParallelErrorsWitness ==
  /\ mode = "parallel"
  /\ stream = "completed"
  /\ \E i, j \in DOMAIN events :
       /\ i < j
       /\ events[i].type = "NODE_ERRORED"
       /\ events[j].type = "NODE_STARTED"

-----------------------------------------------------------------------------
\* Every CACHE_INVALIDATED comes after every terminal event.
InvalidatedAfterTerminals ==
  \A p, i \in DOMAIN events :
    (events[p].type = "CACHE_INVALIDATED" /\ events[i].type \in Terminal)
      => i < p

(* C7, as amended: in a parallel run CACHE_INVALIDATED{W} is emitted at    *)
(* most once per workspace and only for a workspace that emitted           *)
(* NODE_ERRORED (a rebuild triggers none), every CACHE_INVALIDATED comes   *)
(* after all terminal events of the step, and when the run completes, that *)
(* is when no invalidation failed, it has been emitted exactly once for    *)
(* each workspace that emitted NODE_ERRORED.                               *)
ParallelInvalidatesErrored ==
  mode = "parallel" =>
    /\ \A w \in Ws :
         /\ Count({"CACHE_INVALIDATED"}, w) <= 1
         /\ Count({"CACHE_INVALIDATED"}, w) = 1
              => Count({"NODE_ERRORED"}, w) = 1
         /\ (stream = "completed" /\ Count({"NODE_ERRORED"}, w) = 1)
              => Count({"CACHE_INVALIDATED"}, w) = 1
    /\ InvalidatedAfterTerminals

\* C7 witness: a parallel run completed in which one task errored and was
\* invalidated and another was rebuilt and was not.
ParallelInvalidatesWitness ==
  /\ mode = "parallel"
  /\ stream = "completed"
  /\ \E v, w \in Ws :
       /\ Count({"NODE_ERRORED"}, v) = 1
       /\ Count({"CACHE_INVALIDATED"}, v) = 1
       /\ \E i \in Pos({"NODE_PROCESSED"}, w) : events[i].info = "rebuilt"
       /\ Count({"CACHE_INVALIDATED"}, w) = 0

(* C7 as stated: in a parallel run that has ended, CACHE_INVALIDATED{W}    *)
(* was emitted exactly once for each workspace that emitted NODE_ERRORED   *)
(* and for no other, after all terminal events.                            *)
ParallelInvalidatesEveryErrored ==
  (mode = "parallel" /\ Terminated) =>
    /\ \A w \in Ws :
         Count({"CACHE_INVALIDATED"}, w)
           = IF Count({"NODE_ERRORED"}, w) > 0 THEN 1 ELSE 0
    /\ InvalidatedAfterTerminals

-----------------------------------------------------------------------------
\* Positions of the ERROR_INVALIDATING_CACHE events.
InvalidationErrors ==
  {i \in DOMAIN events : events[i].type = "ERROR_INVALIDATING_CACHE"}

-----------------------------------------------------------------------------
\* Workspaces that emitted NODE_STARTED and no terminal event yet.
InFlight ==
  {w \in Ws : Count({"NODE_STARTED"}, w) > Count(Terminal, w)}

(* C9: in a plain run with concurrency N, in parallel mode and inside      *)
(* every topological step, at most N workspaces have emitted NODE_STARTED  *)
(* and not yet their terminal event.                                       *)
InFlightWithinConcurrency == Cardinality(InFlight) <= Concurrency

\* C9 witness: as many tasks in flight as the concurrency allows while a
\* task that would run is waiting.
InFlightWitness ==
  /\ Cardinality(InFlight) = Concurrency
  /\ InFlight = active
  /\ \E w \in Range(queue) : Runnable(w)

-----------------------------------------------------------------------------
\* Position of workspace w in its step (0 outside the plan).
IndexInStep(w) ==
  IF StepIndexOf(w) = 0 THEN 0
  ELSE CHOOSE i \in DOMAIN targets[StepIndexOf(w)] :
         targets[StepIndexOf(w)][i] = w

(* The scheduler has reached the task of w in the current pass: it has     *)
(* subscribed a task that comes after it in the plan, or the run has       *)
(* completed.                                                              *)
Reached(w) ==
  /\ StepIndexOf(w) # 0
  /\ \/ stream = "completed"
     \/ \E i \in DOMAIN events :
          /\ events[i].type \in {"NODE_STARTED", "NODE_SKIPPED"}
          /\ \/ StepIndexOf(events[i].ws) > StepIndexOf(w)
             \/ /\ StepIndexOf(events[i].ws) = StepIndexOf(w)
                /\ IndexInStep(events[i].ws) >= IndexInStep(w)

(* C10, as amended: in every pass a target with hasCommand = false or      *)
(* affected = false never emits NODE_STARTED or a terminal event and       *)
(* Workspace.run is never invoked for it; it emits NODE_SKIPPED at most    *)
(* once, and exactly once as soon as the scheduler has reached its task,   *)
(* in particular whenever the run completes.                               *)
SkippedNeverRuns ==
  \A w \in Ws :
    ~Runnable(w) =>
      /\ Count(Terminal \cup {"NODE_STARTED"}, w) = 0
      /\ w \notin runInvoked
      /\ Count({"NODE_SKIPPED"}, w) <= 1
      /\ Reached(w) => Count({"NODE_SKIPPED"}, w) = 1

\* C10 witness: a target was skipped while the task before it in its step
\* was running, and the task after it was started.
SkippedNeverRunsWitness ==
  \E u, v, w \in Ws :
    /\ ~Runnable(v)
    /\ Count({"NODE_SKIPPED"}, v) = 1
    /\ StepIndexOf(u) = StepIndexOf(v) /\ StepIndexOf(v) = StepIndexOf(w)
    /\ IndexInStep(u) < IndexInStep(v) /\ IndexInStep(v) < IndexInStep(w)
    /\ u \in active /\ w \in active

(* C10 as stated: when a pass has ended, every target of the plan with     *)
(* hasCommand = false or affected = false has emitted exactly one          *)
(* NODE_SKIPPED and no other event.                                        *)
SkippedExactlyOnce ==
  Terminated =>
    \A w \in PlanWs :
      ~Runnable(w) =>
        /\ Count({"NODE_SKIPPED"}, w) = 1
        /\ \A i \in DOMAIN events :
             events[i].ws = w => events[i].type = "NODE_SKIPPED"

-----------------------------------------------------------------------------
(* Reading the cache and the watch-mode callbacks.                         *)

\* The last call of a Cache method, and the one before it.
LastCall == calls[Len(calls)]
PrevCall == calls[1]

(* The stored fingerprint equals the current one on every key and value    *)
(* and the results file is present and parseable.                          *)
EntryReadable ==
  /\ \E p \in Paths : files[p] # 0
  /\ checksumsFile.kind = "json"
  /\ outputFile.kind = "json"
  /\ LET stored == checksumsFile.val
         keys == {CmdKey, GlobsKey} \cup {PathKey(p) : p \in {q \in Paths : files[q] # 0}}
     IN /\ DOMAIN stored = keys
        /\ stored[CmdKey] = 1
        /\ stored[GlobsKey] = 1
        /\ \A p \in Paths : files[p] # 0 => stored[PathKey(p)] = files[p]

\* The step is the handling of a source change on workspace w.
ChangeOn(w) ==
  /\ batch' # <<>>
  /\ batch'[1].type = "SOURCES_CHANGED"
  /\ batch'[1].ws = w

\* The workspaces the step reports as interrupted.
InterruptedBy == {batch'[i].ws : i \in {j \in DOMAIN batch' : batch'[j].type = "NODE_INTERRUPTED"}}

\* The step emits SOURCES_CHANGED and does nothing else.
OnlySourcesChanged ==
  /\ Len(batch') = 1
  /\ UNCHANGED <<step, queue, active, emitted, executions, wrp, currentStep>>

-----------------------------------------------------------------------------
(* C11: when a task runs with force = false and cache.read() returns       *)
(* stored results, Workspace.run ends with fromCache = true and those      *)
(* results and spawns no process; with force = true, or when the read      *)
(* misses, the commands are spawned and the result has fromCache = false.  *)
CacheHitSpawnsNothing ==
  pc # "idle" =>
    /\ (~task.force /\ task.cached # Null) =>
         /\ ~task.spawned
         /\ pc = "ended"
         /\ task.status = "ok"
         /\ task.fromCache
         /\ task.commands = task.cached
    /\ (task.force \/ task.cached = Null) =>
         /\ task.spawned
         /\ ~task.fromCache
         /\ task.status = "ok" => task.commands \in Results

\* C11 witness: an unforced task was served from a readable entry.
CacheHitWitness ==
  /\ pc = "ended"
  /\ ~task.force
  /\ task.cached \in Results
  /\ task.fromCache
  /\ ~task.spawned

-----------------------------------------------------------------------------
(* C12: Cache.read never throws; it returns the stored results exactly     *)
(* when the stored fingerprint equals the current one on every key and     *)
(* value and the results file is present and parseable, and null in every  *)
(* other case.                                                             *)
ReadReturnsStoredOnlyOnEqualFingerprint ==
  (calls # <<>> /\ LastCall.op = "read") =>
    /\ ~LastCall.thrown
    /\ LastCall.val = IF EntryReadable THEN outputFile.val ELSE Null

\* C12 witness: a read returned the stored results of a fingerprint with a
\* key for every source path.
ReadReturnsStoredWitness ==
  /\ calls # <<>>
  /\ LastCall.op = "read"
  /\ LastCall.val \in Results
  /\ Cardinality({p \in Paths : files[p] # 0}) = NumFiles

-----------------------------------------------------------------------------
(* C13 as stated: for a target whose globs match at least one file, a      *)
(* read() that follows write(R) with the sources unchanged returns R.      *)
WriteThenReadReturnsWritten ==
  (/\ Len(calls) = 2
   /\ PrevCall.op = "write"
   /\ LastCall.op = "read"
   /\ \E p \in Paths : files[p] # 0) =>
    LastCall.val = PrevCall.arg

-----------------------------------------------------------------------------
(* C14: from any state of the cache folder, an invalidate() under which    *)
(* the file system does not fail (a missing file is not a failure) does    *)
(* not throw and leaves both files absent; so does a second one.           *)
InvalidateIdempotent ==
  (calls # <<>> /\ LastCall.op = "invalidate" /\ ~LastCall.fault) =>
    /\ ~LastCall.thrown
    /\ checksumsFile.kind = "absent"
    /\ outputFile.kind = "absent"

\* C14 witness: invalidate() was called twice in a row and the second call
\* returned.
InvalidateIdempotentWitness ==
  /\ Len(calls) = 2
  /\ PrevCall.op = "invalidate"
  /\ LastCall.op = "invalidate"
  /\ ~LastCall.fault
  /\ ~LastCall.thrown

-----------------------------------------------------------------------------
-----------------------------------------------------------------------------
(* C16 as stated: when target resolution fails the subscriber receives an  *)
(* error notification, and no NODE_STARTED.                                *)
ResolutionFailureErrorsStream ==
  resolution = "rejected" =>
    /\ stream = "errored"
    /\ \A i \in DOMAIN events : events[i].type # "NODE_STARTED"

-----------------------------------------------------------------------------
(* C17 as stated: in watch mode a change on a workspace W of the current   *)
(* step whose task has started interrupts W only; the other tasks of the   *)
(* step keep running and nothing is scheduled again before the step has    *)
(* completed.                                                              *)
ChangeInCurrentStepInterruptsOnlyIt ==
  [][\A w \in Ws :
       (ChangeOn(w) /\ currentStep # 0 /\ StepIndexOf(w) = currentStep
        /\ w \in active) =>
         /\ InterruptedBy = {w}
         /\ active \ {w} \subseteq active'
         /\ step' = step]_vars

-----------------------------------------------------------------------------
-----------------------------------------------------------------------------
(* C19 as stated: in watch mode a change on a workspace that has not       *)
(* started yet in the current step, or that belongs to a later step, emits *)
(* SOURCES_CHANGED and nothing else happens.                               *)
ChangeOnNotStartedDoesNothing ==
  [][\A w \in Ws :
       (ChangeOn(w) /\ currentStep # 0
        /\ \/ StepIndexOf(w) > currentStep
           \/ StepIndexOf(w) = currentStep /\ w \in Range(queue)) =>
         OnlySourcesChanged]_vars

-----------------------------------------------------------------------------
(* C20 as stated: in watch mode a change on a workspace of the plan with   *)
(* affected = false emits SOURCES_CHANGED and nothing else happens.        *)
ChangeOnUnaffectedDoesNothing ==
  [][\A w \in Ws : (ChangeOn(w) /\ ~affected[w]) => OnlySourcesChanged]_vars

-----------------------------------------------------------------------------
\* The workspaces the step starts, with the step that started each.
StartedBy == {<<batch'[i].ws, batch'[i].step>> :
                i \in {j \in DOMAIN batch' : batch'[j].type = "NODE_STARTED"}}

\* The workspaces the step starts or skips in a step before step k.
RerunBefore(k) ==
  {batch'[i].ws : i \in {j \in DOMAIN batch' :
                           /\ batch'[j].type \in {"NODE_STARTED", "NODE_SKIPPED"}
                           /\ batch'[j].step < k}}

(* C21 as stated: when a change on workspace w of step S leads to a        *)
(* reschedule, the steps before S are not run again and w is the only      *)
(* workspace of step S that is started again.                              *)
RescheduleFromImpactedStep ==
  [][\A w \in Ws :
       (ChangeOn(w) /\ Len(batch') > 1) =>
         /\ RerunBefore(StepIndexOf(w)) = {}
         /\ \A v \in Ws : <<v, StepIndexOf(w)>> \in StartedBy => v = w]_vars

-----------------------------------------------------------------------------
(* C23 as stated: NODE_INTERRUPTED is emitted only for a workspace that is *)
(* in flight when the change is handled (it has emitted NODE_STARTED and   *)
(* no NODE_PROCESSED, NODE_ERRORED or NODE_INTERRUPTED since), and once.   *)
InterruptedOnlyInFlight ==
  [][\A w \in Ws :
       ChangeOn(w) =>
         /\ InterruptedBy \subseteq InFlight
         /\ \A i, j \in DOMAIN batch' :
              (/\ batch'[i].type = "NODE_INTERRUPTED"
               /\ batch'[j].type = "NODE_INTERRUPTED"
               /\ batch'[i].ws = batch'[j].ws) => i = j]_vars

-----------------------------------------------------------------------------
(* Watch mode with commands and invalidations that end: every pending      *)
(* promise of Workspace.run and of invalidate() settles, and the           *)
(* observable of a settled run completes.  Nothing is assumed about the    *)
(* source changes.                                                         *)
Progress ==
  \/ \E w \in Ws : \E fromCache \in BOOLEAN : RunResolves(w, fromCache)
  \/ \E w \in Ws : RunCompletes(w)
  \/ \E w \in Ws : RunRejects(w)
  \/ \E w \in Ws : InvalidateResolves(w)
  \/ \E w \in Ws : InvalidateRejects(w)
  \/ \E w \in Ws : \E ok \in BOOLEAN : OrphanInvalidateSettles(w, ok)

\* Progress is enabled: a promise is pending or a completion is due.
Pending == active \cup emitted \cup invActive \cup invOrphans # {}

\* A step of Progress, told from the variables: once the targets are
\* resolved, every step that handles no source change is one.
ProgressStep ==
  /\ resolution = "resolved"
  /\ batch' = <<>> \/ batch'[1].type # "SOURCES_CHANGED"

(* Weak fairness of Progress, WF_vars(Progress), with ENABLED and the      *)
(* action written out over the variables.                                  *)
ProgressIsFair == ([]<>(~Pending)) \/ ([]<><<ProgressStep>>_vars)

SpecWatchFair == SpecWatch /\ ProgressIsFair

\* The last callback handled a source change on w.
ChangedNow(w) ==
  /\ batch # <<>>
  /\ batch[1].type = "SOURCES_CHANGED"
  /\ batch[1].ws = w

\* Since the last abort, w was started and then emitted its terminal event.
RanAgain(w) ==
  \E i, j \in DOMAIN events :
    /\ i < j
    /\ events[i].type = "NODE_STARTED" /\ events[i].ws = w
    /\ events[j].type \in Terminal /\ events[j].ws = w

(* C22: in watch mode, when SOURCES_CHANGED is emitted for a workspace W   *)
(* that runs the command and that was running or had been processed (its  *)
(* step is not after the current one), and source changes stop arriving    *)
(* from some point on, then the stream errors or W is started again after  *)
(* the change and emits its terminal event.                                *)
ChangedWorkspaceRunsAgain ==
  (<>[][\A v \in Ws : ~ChangeOn(v)]_vars) =>
    \A w \in Ws :
      (ChangedNow(w) /\ Runnable(w) /\ batch[1].step # 0
       /\ StepIndexOf(w) <= batch[1].step)
        ~> (stream = "errored" \/ RanAgain(w))

\* C22 witness: the run was aborted by a change on a running workspace,
\* which was then started again and processed.
ChangedWorkspaceRunsAgainWitness ==
  \E w \in Ws :
    /\ watching
    /\ Runnable(w)
    /\ nResolved = 1
    /\ \A i \in DOMAIN events : events[i].type # "TARGETS_RESOLVED"
    /\ RanAgain(w)

-----------------------------------------------------------------------------
\* The paths the patterns of the last _testAffected call match.
Matched == UNION {Glob(probe.onDisk, probe.patterns[i]) : i \in DOMAIN probe.patterns}

(* C24 as stated: with the patterns ['**'] or no pattern, _testAffected    *)
(* returns true exactly when the diff is not empty, a deleted file         *)
(* included; with other patterns, exactly when a path of the diff is one   *)
(* of the paths the patterns match.                                        *)
LocallyAffectedIffDiff ==
  probe.called =>
    probe.val = IF probe.patterns \in {<<>>, <<AnyGlob>>}
                THEN probe.diffs # {}
                ELSE probe.diffs \cap Matched # {}

-----------------------------------------------------------------------------
\* The sequence has no element twice.
NoDuplicates(q) == \A i, j \in DOMAIN q : q[i] = q[j] => i = j

(* C25: isAffected with topological = true returns true exactly when       *)
(* _testAffected is true of the workspace or of a workspace reachable from *)
(* it through the dependencies; it calls _testAffected at most once per    *)
(* workspace, and only on workspaces of that closure, so that it returns   *)
(* false when none of them has a changed file.  With topological = false   *)
(* it returns what _testAffected returns for the workspace itself and      *)
(* tests no other.                                                         *)
AffectedIffClosureAffected ==
  outcome.op = "isAffected" =>
    /\ NoDuplicates(outcome.order)
    /\ Range(outcome.order) \subseteq Closure(deps, {outcome.ws})
    /\ outcome.topological =>
         /\ outcome.val = \E v \in Closure(deps, {outcome.ws}) :
                             LocalAffected(outcome.changed, v)
         /\ outcome.changed \cap Closure(deps, {outcome.ws}) = {} => ~outcome.val
    /\ ~outcome.topological =>
         /\ outcome.val = LocalAffected(outcome.changed, outcome.ws)
         /\ outcome.order = <<outcome.ws>>

\* C25 witness: a workspace was found affected through the second
\* dependency of one of its dependencies, in a graph with a cycle; three
\* workspaces were tested before.
AffectedIffClosureWitness ==
  /\ outcome.op = "isAffected"
  /\ outcome.topological
  /\ outcome.val
  /\ ~Acyclic(deps)
  /\ Len(outcome.order) = NumWs
  /\ outcome.changed = {outcome.order[NumWs]}
  /\ outcome.order[NumWs] \notin deps[outcome.ws]

-----------------------------------------------------------------------------
(* C26 as stated: a project whose dependency graph has a cycle is not      *)
(* loaded, and getTopologicallySortedWorkspaces returns on every loaded    *)
(* project.                                                                *)
CyclicProjectIsNotLoaded ==
  /\ loaded = "loaded" => Acyclic(deps)
  /\ outcome.op = "sort" => ~outcome.thrown

-----------------------------------------------------------------------------
(* C27: on an acyclic graph getTopologicallySortedWorkspaces(to) returns a *)
(* sequence without duplicates in which every workspace comes after each   *)
(* of its dependencies; it holds to and the workspaces to depends on,      *)
(* directly or not, and no other, and every workspace of the project when  *)
(* to is not given.                                                        *)
SortedAfterDependencies ==
  (outcome.op = "sort" /\ Acyclic(deps)) =>
    /\ ~outcome.thrown
    /\ NoDuplicates(outcome.sorted)
    /\ \A i, j \in DOMAIN outcome.sorted :
         outcome.sorted[j] \in deps[outcome.sorted[i]] => j < i
    /\ Range(outcome.sorted) = IF outcome.ws = 0 THEN Ws
                               ELSE Closure(deps, {outcome.ws})

\* C27 witness: the whole project was sorted and a workspace with two
\* dependencies, one of which depends on the other, came last.
SortedAfterDependenciesWitness ==
  /\ outcome.op = "sort"
  /\ outcome.ws = 0
  /\ Acyclic(deps)
  /\ Len(outcome.sorted) = NumWs
  /\ \E u, v \in Ws :
       /\ {u, v} \subseteq deps[outcome.sorted[NumWs]]
       /\ u \in deps[v]
       /\ u < v

-----------------------------------------------------------------------------
(* C28: the promise of _handleDaemon settles once, with the outcome of the *)
(* first event: it resolves when the first event is the match of a success *)
(* condition; it rejects, the process having been killed before, when the  *)
(* first event is the match of a failure condition, the expiry of a timer, *)
(* a crash of the process or a process without log streams.  Afterwards no *)
(* match, expiry or exit changes the outcome, and no timer is armed.       *)
DaemonSettlesOnceWithFirstEvent ==
  /\ daemon.phase = "watching" =>
       /\ daemon.first = "none"
       /\ daemon.trace = <<>>
  /\ daemon.phase = "resolved" =>
       /\ daemon.first = "success"
       /\ daemon.trace = <<"resolve">>
       /\ daemon.timers = {}
  /\ daemon.phase = "rejected" =>
       /\ daemon.first \in {"failure", "timeout", "crash", "unreadable"}
       /\ daemon.trace = <<"kill", "reject">>
       /\ daemon.timers = {}
  /\ daemon.first # "none" => daemon.phase \in {"resolved", "rejected"}

\* C28 witness: a daemon with as many conditions as can be was rejected on
\* the expiry of a timer, and the process was gone afterwards.
DaemonSettlesOnceWitness ==
  /\ daemon.phase = "rejected"
  /\ daemon.first = "timeout"
  /\ Len(daemon.conds) = MaxConds
  /\ ~daemon.alive

-----------------------------------------------------------------------------
(* C29 as stated: once kill(cmd) has looked up the process tree of every   *)
(* registered process, every root that is still running has received the   *)
(* graceful signal, and so have its descendants.                           *)
KillSignalsWholeTree ==
  (kills.phase # "idle" /\ kills.lookups = {}) =>
    \A r \in kills.roots \ kills.closed :
      /\ r \in kills.termRoot
      /\ r \in kills.parents => r \in kills.termDesc

-----------------------------------------------------------------------------
(* C30 as stated: the promise of kill(cmd) is resolved only when every     *)
(* registered process has reported close.                                  *)
KillResolvesAfterEveryClose ==
  kills.phase = "resolved" => kills.roots \subseteq kills.closed

-----------------------------------------------------------------------------
(* C31 as stated: a registered process that has not exited when its grace  *)
(* period has elapsed is sent SIGKILL, with its descendants, whatever the  *)
(* state of the ports to release.                                          *)
KillEscalatesAfterGrace ==
  \A r \in kills.roots :
    (kills.phase # "idle" /\ r \notin kills.timers /\ r \notin kills.closed) =>
      \/ r \in kills.hard
      \/ /\ r \in kills.killRoot
         /\ r \in kills.parents => r \in kills.killDesc

-----------------------------------------------------------------------------
(* C34 as stated: when a topological run ends on the error of a task,      *)
(* every task of the step that had started has emitted its NODE_PROCESSED  *)
(* or NODE_ERRORED, and each one that emitted NODE_ERRORED has its         *)
(* CACHE_INVALIDATED.                                                      *)
SiblingsCollectedBeforeEnd ==
  (mode = "topological" /\ stream = "errored"
   /\ streamError.type = "NODE_ERRORED") =>
    /\ InFlight = {}
    /\ \A w \in Ws :
         Count({"NODE_ERRORED"}, w) > 0 => Count({"CACHE_INVALIDATED"}, w) > 0

-----------------------------------------------------------------------------
\* Workspace u comes before workspace v in the plan.
BeforeInPlan(u, v) ==
  \/ StepIndexOf(u) < StepIndexOf(v)
  \/ StepIndexOf(u) = StepIndexOf(v) /\ IndexInStep(u) < IndexInStep(v)

(* C37 as stated: the CACHE_INVALIDATED events one step emits for the      *)
(* workspaces of the steps after it are in the order of the plan.          *)
SubsequentInvalidatedInPlanOrder ==
  \A i, j \in DOMAIN events :
    (/\ i < j
     /\ events[i].type = "CACHE_INVALIDATED"
     /\ events[j].type = "CACHE_INVALIDATED"
     /\ events[i].step = events[j].step
     /\ StepIndexOf(events[i].ws) > events[i].step
     /\ StepIndexOf(events[j].ws) > events[j].step) =>
      BeforeInPlan(events[i].ws, events[j].ws)

-----------------------------------------------------------------------------
(* C35 as stated: a task is not started again while its interrupted        *)
(* execution is in flight.  The end of a process and of the cache          *)
(* operations that follow it are callbacks of their own, so an execution   *)
(* that is in flight when a callback interrupts it is still in flight when *)
(* that callback returns: the callback must not start the workspace again. *)
NoRestartWhileInterruptedRuns ==
  [][\A w \in Ws :
       (w \in active /\ w \in InterruptedBy) =>
         \A p \in StartedBy : p[1] # w]_vars

-----------------------------------------------------------------------------
\* A plain run with commands and invalidations that end.
SpecFair == Spec /\ ProgressIsFair

(* C39: in a plain run whose targets were resolved, and whose commands and *)
(* cache operations end, the subscriber is eventually completed or errored;*)
(* once it is, its state never changes again and it receives no event.     *)
PlainRunTerminatesOnce ==
  /\ (resolution = "resolved") ~> (stream # "open")
  /\ [][stream # "open" =>
          /\ stream' = stream
          /\ streamError' = streamError
          /\ events' = events
          /\ batch' = <<>>]_vars

\* C39 witness: a topological run of two steps errored on an invalidation
\* while another invalidation was pending, which then settled.
PlainRunTerminatesWitness ==
  /\ mode = "topological"
  /\ stream = "errored"
  /\ streamError.type = "ERROR_INVALIDATING_CACHE"
  /\ Len(targets) > 1
  /\ ~Pending
  /\ \E i \in DOMAIN events : events[i].type = "CACHE_INVALIDATED"

-----------------------------------------------------------------------------
(* The Watcher (watcher.ts, second revision, lines 61-103).  watch() makes *)
(* one chokidar watcher per glob of every target, a Map of the changes     *)
(* seen per target and an interval that flushes the Map to _events$.       *)
(* Each target has one glob here.  A file-system watcher is named by the   *)
(* watch() call that made it and its target; a raw event is named by its   *)
(* rank of arrival.                                                        *)

\* Calls of watch() in one behaviour.
MaxWatches == 2

\* The targets of the Watcher (steps.flat(), line 68), in their order.
WatchedTargets == {1, 2}
\* Raw file-system events in one behaviour: enough for one target to see two
\* changes while the other sees one.
MaxRawEvents == Cardinality(WatchedTargets) + 1
LastTarget == CHOOSE t \in WatchedTargets : \A u \in WatchedTargets : u <= t

(* unwatch() (lines 99-102): closes the watcher the field _watcher holds   *)
(* and replaces _events$ by a new subject.  The former subject is not      *)
(* completed, the interval is not cleared, and the other watchers are not  *)
(* referenced by any field.                                                *)
UnwatchOp(f) ==
  [f EXCEPT !.open = @ \ {f.held},
            !.closed = @ \cup ({f.held} \cap f.open),
            !.cur = @ + 1,
            !.live = FALSE]

(* watch() (lines 72-97): unwatch(), then for every target and glob        *)
(* this._watcher = watch(glob).on('all', ...), so that the field holds the *)
(* watcher made last; setInterval is called and its handle dropped; the    *)
(* stream returned is that of the subject made by unwatch().               *)
WatchOp(f) ==
  LET g == UnwatchOp(f)
      c == f.calls + 1
  IN [g EXCEPT !.calls = c,
               !.live = TRUE,
               !.streams = Append(@, g.cur),
               !.open = @ \cup {<<c, t>> : t \in WatchedTargets},
               !.held = <<c, LastTarget>>,
               !.buffers = Append(@, <<>>),
               !.ticking = @ \cup {c}]

(* The 'all' listener (lines 78-87) on the Map of one watch() call: the    *)
(* change is pushed on the array of its target, made on the first change.  *)
PushChange(buf, t, n) ==
  IF \E i \in DOMAIN buf : buf[i].target = t
  THEN [i \in DOMAIN buf |->
          IF buf[i].target = t THEN [buf[i] EXCEPT !.events = Append(@, n)] ELSE buf[i]]
  ELSE Append(buf, [target |-> t, events |-> <<n>>])

\* Variant of the interval's callback that does not clear the Map.
FlushKeeps(f, c) ==
  IF f.buffers[c] # <<>>
  THEN [f EXCEPT !.delivered = Append(@, [subject |-> f.cur, groups |-> f.buffers[c]])]
  ELSE f

(* The interval's callback (lines 90-95) of the watch() call c: a Map with *)
(* entries is emitted on the subject this._events$ is at that time, and    *)
(* the Map is cleared.                                                     *)
Flush(f, c) ==
  IF f.buffers[c] # <<>>
  THEN [f EXCEPT !.delivered = Append(@, [subject |-> f.cur, groups |-> f.buffers[c]]),
                 !.buffers[c] = <<>>]
  ELSE f

beyondWatcher == <<options, sched, cache, project, process, debounced, registry, racers>>

\* watcher.watch() is called.
Watch ==
  /\ fsw.calls < MaxWatches
  /\ fsw' = WatchOp(fsw)
  /\ UNCHANGED beyondWatcher

\* watcher.unwatch() is called after a watch().
Unwatch ==
  /\ fsw.live
  /\ fsw' = UnwatchOp(fsw)
  /\ UNCHANGED beyondWatcher

(* chokidar reports a change to the watcher that watch() call c made for   *)
(* target t.  The history raw keeps, for each raw event, its watcher, the  *)
(* subject _events$ was then and whether a watch was active.               *)
FsEvent(c, t) ==
  /\ <<c, t>> \in fsw.open
  /\ Len(fsw.raw) < MaxRawEvents
  /\ fsw' = [fsw EXCEPT
               !.raw = Append(@, [call |-> c, target |-> t,
                                  subject |-> fsw.cur, live |-> fsw.live]),
               !.buffers[c] = PushChange(@, t, Len(fsw.raw) + 1)]
  /\ UNCHANGED beyondWatcher

\* The interval of watch() call c fires with changes in its Map.
Tick(c) ==
  /\ c \in fsw.ticking
  /\ fsw.buffers[c] # <<>>
  /\ fsw' = Flush(fsw, c)
  /\ UNCHANGED beyondWatcher

InitWatcher ==
  /\ NoRun /\ NoCache /\ NoProject /\ NoProcess
  /\ fsw = NoWatcher
  /\ debounced = NoDebounce /\ registry = NoRegistry /\ racers = NoRace

NextWatcher ==
  \/ Watch
  \/ Unwatch
  \/ \E c \in 1..MaxWatches : \E t \in WatchedTargets : FsEvent(c, t)
  \/ \E c \in 1..MaxWatches : Tick(c)

SpecWatcher == InitWatcher /\ [][NextWatcher]_vars

\* The places of raw event n in the batches delivered on subject x, and in
\* the Maps not flushed yet.
InBatches(n, x) ==
  {p \in (DOMAIN fsw.delivered) \X (1..MaxRawEvents) \X (1..MaxRawEvents) :
     /\ fsw.delivered[p[1]].subject = x
     /\ p[2] \in DOMAIN fsw.delivered[p[1]].groups
     /\ p[3] \in DOMAIN fsw.delivered[p[1]].groups[p[2]].events
     /\ fsw.delivered[p[1]].groups[p[2]].events[p[3]] = n}
InBuffers(n) ==
  {p \in (DOMAIN fsw.buffers) \X (1..MaxRawEvents) \X (1..MaxRawEvents) :
     /\ p[2] \in DOMAIN fsw.buffers[p[1]]
     /\ p[3] \in DOMAIN fsw.buffers[p[1]][p[2]].events
     /\ fsw.buffers[p[1]][p[2]].events[p[3]] = n}

\* A batch as the subscriber gets it: one group per target, no group empty,
\* every change under the target of its watcher, in the order of arrival.
WellGrouped(groups) ==
  /\ groups # <<>>
  /\ \A i, j \in DOMAIN groups : groups[i].target = groups[j].target => i = j
  /\ \A i \in DOMAIN groups :
       /\ groups[i].events # <<>>
       /\ \A k \in DOMAIN groups[i].events :
            fsw.raw[groups[i].events[k]].target = groups[i].target
       /\ \A k, l \in DOMAIN groups[i].events :
            k < l => groups[i].events[k] < groups[i].events[l]

UnwatchEndsEverything ==
  /\ (~fsw.live /\ fsw.calls > 0) =>
       /\ fsw.streams[fsw.calls] \in fsw.completed
       /\ fsw.open = {}
  /\ \A b \in DOMAIN fsw.delivered :
       \A i \in DOMAIN fsw.delivered[b].groups :
         \A k \in DOMAIN fsw.delivered[b].groups[i].events :
           fsw.raw[fsw.delivered[b].groups[i].events[k]].subject
             = fsw.delivered[b].subject

-----------------------------------------------------------------------------
(* The source changes of watch mode on their way to the scheduler          *)
(* (runner.ts, lines 687-704): the Watcher reports every change on its     *)
(* stream (watcher.ts, lines 23-38) and the runner subscribes to           *)
(* sourcesChange$.pipe(debounceTime(debounce)).  debounceTime keeps the    *)
(* last value it received and emits it when no other value has come for    *)
(* the debounce delay; a value that comes before replaces the one kept.    *)

\* Changes the Watcher reports in one behaviour.
MaxReports == 3

beyondDebounce == <<options, sched, cache, project, process, fsw, registry, racers>>

(* The Watcher reports a change on workspace w (watcher.ts, lines 27-33):  *)
(* debounceTime keeps it in place of the value it held and starts its      *)
(* timer again.                                                            *)
WatcherReports(w) ==
  /\ Len(debounced.reported) < MaxReports
  /\ debounced' = [debounced EXCEPT !.pending = w, !.reported = Append(@, w)]
  /\ UNCHANGED beyondDebounce

(* The timer of debounceTime fires: the value kept is given to the         *)
(* subscriber (lines 687-689), which emits SOURCES_CHANGED for its         *)
(* workspace and looks up its step.  forwarded is the history of the       *)
(* reports that a SOURCES_CHANGED of their workspace has followed.         *)
DebounceFires ==
  /\ debounced.pending # 0
  /\ debounced' =
       [debounced EXCEPT
          !.pending = 0,
          !.emitted = Append(@, debounced.pending),
          !.forwarded = @ \cup {i \in DOMAIN debounced.reported :
                                  debounced.reported[i] = debounced.pending}]
  /\ UNCHANGED beyondDebounce

InitDebounce ==
  /\ NoRun /\ NoCache /\ NoProject /\ NoProcess
  /\ fsw = NoWatcher /\ registry = NoRegistry /\ racers = NoRace
  /\ debounced = NoDebounce

NextDebounce ==
  \/ \E w \in Ws : WatcherReports(w)
  \/ DebounceFires

SpecDebounce == InitDebounce /\ [][NextDebounce]_vars

(* C40 as stated: once the debounce delay has passed without a new change, *)
(* every change the Watcher reported for a workspace has been followed by  *)
(* a SOURCES_CHANGED event of that workspace.                              *)
NoSourceChangeLost ==
  debounced.pending = 0 =>
    \A i \in DOMAIN debounced.reported : i \in debounced.forwarded

-----------------------------------------------------------------------------
(* The registry of the processes of one target (part_017, lines 277-279,   *)
(* 325-380).  _runCommand spawns a process and records its handle under    *)
(* processes[target][cmdId]; an invocation is named by its rank.           *)

\* Invocations of _runCommand for the target in one behaviour.
MaxSpawns == 3

(* _runCommand (lines 340-356): the process is spawned, its handle is set  *)
(* in the Map of the target, and a daemon is handed to _handleDaemon.      *)
SpawnOp(g, isDaemon) ==
  [g EXCEPT !.spawned = @ + 1,
            !.handles = @ \cup {g.spawned + 1},
            !.running = @ \cup {g.spawned + 1},
            !.daemons = IF isDaemon THEN @ \cup {g.spawned + 1} ELSE @]

(* The process of invocation id ends (lines 357-379).  For a command that  *)
(* is no daemon, `await _process` resolves on exit code 0 and the handle   *)
(* is deleted (line 371); on a non-zero code or a signal it rejects and    *)
(* the catch block rethrows.  A daemon returned at line 362: nothing       *)
(* follows its end but crashed$ (lines 194-205).                           *)
ProcessEnds(g, id, way) ==
  [g EXCEPT !.running = @ \ {id},
            !.ended = @ \cup {<<id, way>>},
            !.handles = IF way = "zero" /\ id \notin g.daemons THEN @ \ {id} ELSE @]

(* kill(target) (lines 325-330): _killProcess for every handle of the Map. *)
(* stale is the history of the handles signalled after their process had   *)
(* ended.                                                                  *)
KillOp(g) ==
  [g EXCEPT !.signalled = @ \cup g.handles,
            !.stale = @ \cup (g.handles \ g.running)]

beyondRegistry == <<options, sched, cache, project, process, fsw, debounced, racers>>

Spawn(isDaemon) ==
  /\ registry.spawned < MaxSpawns
  /\ registry' = SpawnOp(registry, isDaemon)
  /\ UNCHANGED beyondRegistry

\* A running process exits by itself, with code 0 or not.
ProcessExits(id, way) ==
  /\ id \in registry.running
  /\ registry' = ProcessEnds(registry, id, way)
  /\ UNCHANGED beyondRegistry

\* A running process that kill(target) signalled dies of the signal.
ProcessKilled(id) ==
  /\ id \in registry.running \cap registry.signalled
  /\ registry' = ProcessEnds(registry, id, "killed")
  /\ UNCHANGED beyondRegistry

KillTarget ==
  /\ registry.handles # {}
  /\ registry.handles \ registry.signalled # {}
  /\ registry' = KillOp(registry)
  /\ UNCHANGED beyondRegistry

InitRegistry ==
  /\ NoRun /\ NoCache /\ NoProject /\ NoProcess
  /\ fsw = NoWatcher /\ debounced = NoDebounce /\ racers = NoRace
  /\ registry = NoRegistry

NextRegistry ==
  \/ \E isDaemon \in BOOLEAN : Spawn(isDaemon)
  \/ \E id \in 1..MaxSpawns : \E way \in {"zero", "nonzero"} : ProcessExits(id, way)
  \/ \E id \in 1..MaxSpawns : ProcessKilled(id)
  \/ KillTarget

SpecRegistry == InitRegistry /\ [][NextRegistry]_vars

(* C38 as stated: the registry of the target holds a handle for exactly    *)
(* the invocations whose process has not ended, whichever way it ended,    *)
(* and kill(target) never signals a process that has ended.                *)
RegistryHoldsInFlightOnly ==
  /\ registry.handles = registry.running
  /\ registry.stale = {}

-----------------------------------------------------------------------------
(* Cache operations on one entry at the same time (cache.ts, lines 34-105: *)
(* no lock is taken).  A read() runs while one write(r) or one             *)
(* invalidate() of another task runs on the same folder; each await on the *)
(* file system is a step.  The entry the folder holds at first is the one  *)
(* an earlier run left.  genC and genO are the history of which operation  *)
(* each file comes from: 0 the former entry, 1 the write, 2 the removal.   *)

beyondRace == <<files, memoSet, calls, pc, task, options, sched, project, process,
                fsw, debounced, registry>>

(* read(), lines 37-44: the current and the stored checksums are read and  *)
(* compared.  An error or a difference ends the read with null.            *)
ReadCompares ==
  /\ racers.read = "start"
  /\ LET currentChecksums == ChecksumCalculate(files)
         storedChecksum == ChecksumRead(checksumsFile)
     IN racers' = IF currentChecksums.thrown \/ currentChecksums.val # storedChecksum
                  THEN [racers EXCEPT !.read = "done", !.returned = Null]
                  ELSE [racers EXCEPT !.read = "matched", !.sawC = racers.genC]
  /\ UNCHANGED <<checksumsFile, outputFile, beyondRace>>

(* read(), lines 45-46: output.json is read and parsed; an error ends the  *)
(* read with null.                                                         *)
ReadOutput ==
  /\ racers.read = "matched"
  /\ racers' = [racers EXCEPT
                  !.read = "done",
                  !.returned = IF outputFile.kind = "json" THEN outputFile.val ELSE Null,
                  !.sawO = racers.genO]
  /\ UNCHANGED <<checksumsFile, outputFile, beyondRace>>

\* write(r), line 64: checksums.json is written.
WriteChecksumsFile ==
  /\ racers.other = "write" /\ ~racers.wroteC
  /\ checksumsFile' = CacheWrite(files, checksumsFile, outputFile, FALSE,
                                 racers.results, FALSE).checksumsFile
  /\ racers' = [racers EXCEPT !.wroteC = TRUE, !.genC = 1]
  /\ UNCHANGED <<outputFile, beyondRace>>

\* write(r), line 65: output.json is written.
WriteOutputFile ==
  /\ racers.other = "write" /\ ~racers.wroteO
  /\ outputFile' = CacheWrite(files, checksumsFile, outputFile, FALSE,
                              racers.results, FALSE).outputFile
  /\ racers' = [racers EXCEPT !.wroteO = TRUE, !.genO = 1]
  /\ UNCHANGED <<checksumsFile, beyondRace>>

\* invalidate(), line 98: checksums.json is removed when it exists.
RemoveChecksumsFile ==
  /\ racers.other = "invalidate" /\ ~racers.wroteC
  /\ checksumsFile' = CacheInvalidate(checksumsFile, outputFile, FALSE, TRUE).checksumsFile
  /\ racers' = [racers EXCEPT !.wroteC = TRUE, !.genC = 2]
  /\ UNCHANGED <<outputFile, beyondRace>>

\* invalidate(), line 99: output.json is removed when it exists.
RemoveOutputFile ==
  /\ racers.other = "invalidate" /\ ~racers.wroteO
  /\ outputFile' = CacheInvalidate(checksumsFile, outputFile, TRUE, FALSE).outputFile
  /\ racers' = [racers EXCEPT !.wroteO = TRUE, !.genO = 2]
  /\ UNCHANGED <<checksumsFile, beyondRace>>

(* A read and another operation have been called on a folder in any state *)
(* and with sources that match something (write() computes the checksums   *)
(* before it writes, line 60).                                             *)
InitRace ==
  /\ NoRun /\ NoProject /\ NoProcess
  /\ fsw = NoWatcher /\ debounced = NoDebounce /\ registry = NoRegistry
  /\ files \in {f \in FileStates : ~ChecksumCalculate(f).thrown}
  /\ checksumsFile \in StoredChecksums(files)
  /\ outputFile \in StoredOutputs
  /\ memoSet = FALSE /\ calls = <<>> /\ pc = "idle" /\ task = IdleTask
  /\ \E o \in {"write", "invalidate"} : \E r \in Results :
       /\ o = "invalidate" => r = 1
       /\ racers = [NoRace EXCEPT !.other = o, !.read = "start",
                                  !.results = IF o = "write" THEN r ELSE 0]

NextRace ==
  \/ ReadCompares
  \/ ReadOutput
  \/ WriteChecksumsFile
  \/ WriteOutputFile
  \/ RemoveChecksumsFile
  \/ RemoveOutputFile

SpecRace == InitRace /\ [][NextRace]_vars

====
